---- MODULE Spec2Model ----
(***************************************************************************)
(* A model of godot-gravityfield: the gravity query resolver               *)
(* (gravity/query.rs) and the shape resources that generate rounded        *)
(* collision geometry (gravity/field/shaped/{cuboid,ring3d,curve}.rs).     *)
(*                                                                         *)
(* Encodings                                                               *)
(*  - Option<T> is a set with at most one element: None is {} and Some(x)  *)
(*    is {x}.                                                              *)
(*  - A scalar parameter (godot `real`) is an integer; the shape           *)
(*    parameters are drawn from even integers so that `x * 0.5` is exact.  *)
(*  - A direction handed out by a field is one of the axis-aligned unit    *)
(*    vectors or the zero vector, so sums of them are exact integer        *)
(*    vectors; the unit vector produced by a normalization is encoded by   *)
(*    the primitive integer vector of its ray (see normalized_or_zero).    *)
(***************************************************************************)
EXTENDS Integers, Sequences, FiniteSets, TLC

(***************************************************************************)
(* Bounds of the model                                                     *)
(***************************************************************************)
\* number of areas present in the physics space
MaxAreas == 6
\* largest collision mask value drawn by set_collision_mask (two bits)
MaxMask == 3
\* the scalar arguments of the ring and curve setters are 2 * k for
\* k in -1..MaxHalf
MaxHalf == 2
\* largest vertex count drawn by set_vertex_count
MaxVertexCount == 3
\* the scalar arguments of the cuboid setters are -1..MaxExtent
MaxExtent == 3
\* the curves drawn by set_curve have 0..MaxPoints baked points
MaxPoints == 4
\* the nodes of the fields have a uniform scale of 1..MaxScale
MaxScale == 2
\* the height and the radius drawn for the cone are 0..MaxCone
MaxCone == 2
\* the bridges drawn hold at most MaxBridgePoints points
MaxBridgePoints == 3

(***************************************************************************)
(* Program constants                                                       *)
(***************************************************************************)
\* Level::MIN, the starting level of the scan (i32::MIN)
LevelMIN == (-2147483647) - 1
\* const MASK: Mask = 0b1 in init
MASK == 1
\* max_results: 32 in init
DefaultMaxResults == 32
\* outer_radius: 15.0 in the ring's init
DefaultOuterRadius == 15
\* vertex_count: 24 in the ring's init
DefaultVertexCount == 24
\* real::MIN_POSITIVE, the components of MIN_SIZE.  The scalars of the
\* cuboid are counted in steps of MIN_POSITIVE / 2, so 1 is a positive
\* subnormal number below it.
MIN_POSITIVE == 2
\* the components of Vector::ONE, the box_size of init: a size above
\* MIN_POSITIVE (nothing in the cuboid depends on its magnitude)
ONE == 4
\* height: 1.0 and radius: 0.5 in the cone's init, counted in halves
DefaultConeHeight == 2
DefaultConeRadius == 1

VARIABLES
    \* GravityQuery: field collision_mask
    collision_mask,
    \* GravityQuery: the collision mask held by `internal`, the
    \* PhysicsPointQueryParameters object handed to the physics engine
    internal_mask,
    \* GravityQuery: field max_results
    max_results,
    \* the last spatial query issued: None, or Some of the position, the mask
    \* the engine was given and the results it returned
    q_call,
    \* the value returned by the last query operation: None after a setter,
    \* or Some of the operation's name and the value it returned
    q_ret,
    \* a shape resource (the dynamically typed Shape held by a shape-backed
    \* field): a record of its type name and its fields
    shape,
    \* the outcome of the last colliders() call on the shape: None after a
    \* setter, or Some of whether the call panicked and the list it returned
    shape_ret,
    \* the last operation called on the shape: None at first, or Some of its
    \* name, its argument and the shape as it was before the call
    shape_call,
    \* the outcome of the last up() call on the shape: None after any other
    \* operation, or Some of whether the call panicked and the vector it
    \* returned
    shape_up,
    \* a gravity field (an Area node implementing the Field trait): a record
    \* of its type name, its fields and the global transform of its node
    field,
    \* the last up direction asked of the field: None after a setter, or Some
    \* of the operation's name, the position, whether the call panicked and
    \* the vector it returned
    field_ret,
    \* the scene tree's record of the nodes it has freed: the indices of
    \* the bridge's points whose referenced field node was destroyed, while
    \* the point keeps its handle
    freed

query_vars == <<collision_mask, internal_mask, max_results, q_call, q_ret>>
shape_vars == <<shape, shape_ret, shape_call, shape_up>>
field_vars == <<field, field_ret, freed>>

vars == <<collision_mask, internal_mask, max_results, q_call, q_ret, shape, shape_ret,
          shape_call, shape_up, field, field_ret, freed>>

(***************************************************************************)
(* Generic helpers                                                         *)
(***************************************************************************)
None == {}
Some(x) == {x}
Unwrap(o) == CHOOSE x \in o : TRUE

Abs(x) == IF x < 0 THEN -x ELSE x
Min(a, b) == IF a < b THEN a ELSE b
Max(a, b) == IF a > b THEN a ELSE b
Range(s) == {s[i] : i \in DOMAIN s}

RECURSIVE Gcd(_, _)
Gcd(a, b) == IF b = 0 THEN a ELSE Gcd(b, a % b)

\* the injective sequences of length n over S
RECURSIVE Arrangements(_, _)
Arrangements(S, n) ==
    IF n = 0 THEN {<< >>}
    ELSE UNION {{Append(s, x) : x \in S \ Range(s)} : s \in Arrangements(S, n - 1)}

(***************************************************************************)
(* Vectors (godot Vector2 and Vector3)                                     *)
(***************************************************************************)
ZERO == <<0, 0>>
ZERO_3D == <<0, 0, 0>>
VecAdd(u, v) == <<u[1] + v[1], u[2] + v[2]>>
\* the greatest common divisor of the components' magnitudes
RECURSIVE GcdOf(_)
GcdOf(v) == IF v = << >> THEN 0 ELSE Gcd(Abs(Head(v)), GcdOf(Tail(v)))

\* Vector::normalized_or_zero: the zero vector stays zero, any other vector
\* is scaled to unit length.  The unit vector is encoded by the primitive
\* integer vector on the same ray.
normalized_or_zero(v) ==
    IF GcdOf(v) = 0 THEN v
    ELSE [i \in DOMAIN v |-> v[i] \div GcdOf(v)]

VecSub(u, v) == [i \in DOMAIN u |-> u[i] - v[i]]
\* the component-wise product of two vectors
VecMul(u, v) == [i \in DOMAIN u |-> u[i] * v[i]]
\* Vector::direction_to between two distinct points
direction_to(from, to) == normalized_or_zero(VecSub(to, from))
\* Vector::dot
RECURSIVE SumOf(_)
SumOf(v) == IF v = << >> THEN 0 ELSE Head(v) + SumOf(Tail(v))
Dot(u, v) == SumOf(VecMul(u, v))
\* Vector::length of a vector whose length is an integer
Length(v) ==
    LET squared == Dot(v, v)
    IN  CHOOSE n \in 0..SumOf([i \in DOMAIN v |-> Abs(v[i])]) : n * n = squared
HasLength(v) ==
    LET squared == Dot(v, v)
    IN  \E n \in 0..SumOf([i \in DOMAIN v |-> Abs(v[i])]) : n * n = squared

\* real::sign: -1, 0 or 1
sign(x) == IF x < 0 THEN -1 ELSE IF x > 0 THEN 1 ELSE 0
\* Vector::sign, the sign of each component
VecSign(v) == [i \in DOMAIN v |-> sign(v[i])]
\* util3d::flatten_x, flatten_y and flatten_z
flatten_x(v) == <<0, v[2], v[3]>>
flatten_y(v) == <<v[1], 0, v[3]>>
flatten_z(v) == <<v[1], v[2], 0>>

(***************************************************************************)
(* The physics space (external collaborator)                               *)
(*                                                                         *)
(* Area a of the scene: whether it is a gravity field (an Area that        *)
(* implements the Field trait), its priority level, its collision layer,   *)
(* the direction its global_up returns and the positions it overlaps.      *)
(***************************************************************************)
Areas == 1..MaxAreas
Positions == {"p0", "p1", "p2", "p3"}

\* area 5 is an Area that is not a gravity field
IsField(a) == a # 5
\* Field::level of area a
FieldLevel(a) ==
    CASE a \in {2, 3, 6} -> 3
      [] a = 4 -> LevelMIN
      [] OTHER -> 1
\* collision layer of area a
AreaLayer(a) == IF a = 4 THEN 3 ELSE 1
\* Field::global_up of area a at a position
FieldGlobalUp(a, pos) ==
    CASE a = 1 -> <<1, 0>>
      [] a = 2 -> <<0, 1>>
      [] a = 3 -> <<1, 0>>
      [] a = 4 -> <<0, -1>>
      [] a = 5 -> ZERO
      [] a = 6 -> IF pos = "p0" THEN <<0, -1>> ELSE <<-1, 0>>
      [] OTHER -> <<-1, 0>>
\* p0 lies in the gravity fields 1 to 6, p1 in the areas 3 and up, p2 in no
\* area, p3 in area 5 only
Overlaps(a, pos) ==
    CASE pos = "p0" -> a # 5 /\ a <= 6
      [] pos = "p1" -> a >= 3
      [] pos = "p3" -> a = 5
      [] OTHER -> FALSE

\* bitwise and of two masks of two bits
BitAnd(m, n) ==
    (IF (m % 2 = 1) /\ (n % 2 = 1) THEN 1 ELSE 0)
    + (IF ((m \div 2) % 2 = 1) /\ ((n \div 2) % 2 = 1) THEN 2 ELSE 0)

\* PhysicsDirectSpaceState::intersect_point: the areas that overlap the
\* position and whose layer matches the mask of the parameters, at most
\* max of them, in an order the engine chooses
IntersectPoint(mask, pos, max) ==
    LET matches == {a \in Areas : Overlaps(a, pos) /\ BitAnd(AreaLayer(a), mask) # 0}
    IN  Arrangements(matches, Min(Cardinality(matches), max))

(***************************************************************************)
(* GravityQuery (gravity/query.rs)                                         *)
(***************************************************************************)
QueryInit ==
    /\ collision_mask = MASK
    /\ internal_mask = MASK
    /\ max_results = DefaultMaxResults
    /\ q_call = None
    /\ q_ret = None

\* the body of the loop of gravity_direction, without the reset of the
\* contributor list on a strictly higher level
FieldStep_NoClear(acc, a, pos) ==
    IF ~IsField(a) THEN acc
    ELSE IF FieldLevel(a) > acc.level
         THEN [level |-> FieldLevel(a), up |-> FieldGlobalUp(a, pos),
               fields |-> Append(acc.fields, a)]
         ELSE IF FieldLevel(a) = acc.level
              THEN [acc EXCEPT !.up = VecAdd(acc.up, FieldGlobalUp(a, pos)),
                               !.fields = Append(acc.fields, a)]
              ELSE acc

\* the body of the loop of gravity_direction
FieldStep(acc, a, pos) ==
    IF ~IsField(a) THEN acc
    ELSE IF FieldLevel(a) > acc.level
         THEN [level |-> FieldLevel(a), up |-> FieldGlobalUp(a, pos), fields |-> <<a>>]
         ELSE IF FieldLevel(a) = acc.level
              THEN [acc EXCEPT !.up = VecAdd(acc.up, FieldGlobalUp(a, pos)),
                               !.fields = Append(acc.fields, a)]
              ELSE acc

\* the loop of gravity_direction over results[i..]
RECURSIVE ScanResults(_, _, _, _)
ScanResults(results, i, acc, pos) ==
    IF i > Len(results) THEN acc
    ELSE ScanResults(results, i + 1, FieldStep(acc, results[i], pos), pos)

\* gravity_direction without the test for an empty result
Resolve_NoEmptyTest(results, pos) ==
    LET acc == ScanResults(results, 1, [level |-> LevelMIN, up |-> ZERO, fields |-> << >>], pos)
    IN  Some([up |-> normalized_or_zero(acc.up), fields |-> acc.fields])

\* gravity_direction after the spatial query: Option<(Vector, Vec<Dynamic>)>
Resolve(results, pos) ==
    IF results = << >> THEN None
    ELSE LET acc == ScanResults(results, 1,
                                [level |-> LevelMIN, up |-> ZERO, fields |-> << >>], pos)
         IN  Some([up |-> normalized_or_zero(acc.up), fields |-> acc.fields])

\* find_gravity_direction: the Dictionary built from the Option, as the set
\* of its (key, value) pairs
ToDictionary(opt) ==
    IF opt = None THEN {}
    ELSE {<<"up", Unwrap(opt).up>>, <<"fields", Unwrap(opt).fields>>}

set_collision_mask(mask) ==
    /\ collision_mask' = mask
    /\ q_call' = None
    /\ q_ret' = None
    /\ UNCHANGED <<internal_mask, max_results>>
    /\ UNCHANGED <<shape_vars, field_vars>>

set_max_results(n) ==
    /\ max_results' = n
    /\ q_call' = None
    /\ q_ret' = None
    /\ UNCHANGED <<collision_mask, internal_mask>>
    /\ UNCHANGED <<shape_vars, field_vars>>

gravity_direction(pos) ==
    \E results \in IntersectPoint(internal_mask, pos, max_results) :
        /\ q_call' = Some([position |-> pos, mask |-> internal_mask, results |-> results])
        /\ q_ret' = Some([op |-> "gravity_direction", value |-> Resolve(results, pos)])
        /\ UNCHANGED <<collision_mask, internal_mask, max_results>>
        /\ UNCHANGED <<shape_vars, field_vars>>

find_gravity_direction(pos) ==
    \E results \in IntersectPoint(internal_mask, pos, max_results) :
        /\ q_call' = Some([position |-> pos, mask |-> internal_mask, results |-> results])
        /\ q_ret' = Some([op |-> "find_gravity_direction",
                          value |-> ToDictionary(Resolve(results, pos))])
        /\ UNCHANGED <<collision_mask, internal_mask, max_results>>
        /\ UNCHANGED <<shape_vars, field_vars>>

QueryNext ==
    \/ \E mask \in 0..MaxMask : set_collision_mask(mask)
    \/ \E n \in {0, 1, 2, DefaultMaxResults} : set_max_results(n)
    \/ \E pos \in Positions : gravity_direction(pos)
    \/ \E pos \in Positions : find_gravity_direction(pos)

(***************************************************************************)
(* Scalars of the generated geometry                                       *)
(*                                                                         *)
(* The generators halve parameters and multiply radiuses by sin(PI/n) and  *)
(* cos(PI/n).  A generated scalar is kept exact as <<c, s, k, n>>, which   *)
(* stands for  c/2 + (s/2) * 2*sin(PI/n) + (k/2) * cos(PI/n).              *)
(***************************************************************************)
Real(x) == <<2 * x, 0, 0, 0>>
Half(x) == <<x, 0, 0, 0>>
SAdd(a, b) == <<a[1] + b[1], a[2] + b[2], a[3] + b[3], Max(a[4], b[4])>>
SNeg(a) == <<-a[1], -a[2], -a[3], a[4]>>
STwice(a) == <<2 * a[1], 2 * a[2], 2 * a[3], a[4]>>

\* the concatenation of a sequence of sequences
RECURSIVE Flatten(_)
Flatten(ss) == IF ss = << >> THEN << >> ELSE Head(ss) \o Flatten(Tail(ss))

\* records the call of operation op with argument arg on the shape, with
\* the parameters the shape had before the call; the query object is not
\* touched by an operation on a shape
Called(op, arg) ==
    /\ shape_call' = Some([op |-> op, arg |-> arg,
                           before |-> [shape EXCEPT !.internal = None]])
    /\ shape_up' = None
    /\ UNCHANGED <<query_vars, field_vars>>

\* records the call of up on the shape and the vector it returned
CalledUp(position, outcome) ==
    /\ shape_call' = Some([op |-> "up", arg |-> position,
                           before |-> [shape EXCEPT !.internal = None]])
    /\ shape_up' = Some(outcome)
    /\ UNCHANGED <<shape, shape_ret, query_vars, field_vars>>

(***************************************************************************)
(* TransformBuilder (gravity/build_trs.rs)                                 *)
(***************************************************************************)
\* TransformBuilder::new
TransformBuilder(rotations, positions) ==
    [rotations |-> rotations, positions |-> positions]

\* TransformBuilder::build with the 0-based indices of the code: Some of the
\* transform, or None when an index is out of the array's bounds (the
\* indexing panics)
build(trs, index_rot, index_pos) ==
    IF index_rot + 1 \in DOMAIN trs.rotations /\ index_pos + 1 \in DOMAIN trs.positions
    THEN Some([basis |-> trs.rotations[index_rot + 1],
               origin |-> trs.positions[index_pos + 1]])
    ELSE None

\* a collider entry: a shape and the transform built for it
Entry(shp, transform) == [shape |-> shp, transform |-> transform]

\* the outcome of a colliders() call that pushed these entries in order:
\* it panics when a transform could not be built
Outcome(entries) ==
    IF \E i \in DOMAIN entries : entries[i].transform = None
    THEN [panicked |-> TRUE, colliders |-> << >>]
    ELSE [panicked |-> FALSE,
          colliders |-> [i \in DOMAIN entries |->
                            Entry(entries[i].shape, Unwrap(entries[i].transform))]]

(***************************************************************************)
(* GravityShapeRing3D (gravity/field/shaped/ring3d.rs)                     *)
(***************************************************************************)
\* a basis or a vector rotated about Vector3::UP by turn[1]/turn[2] of TAU
Rotated(x, turn) == [of |-> x, turn |-> turn]
NoTurn == <<0, 1>>
IDENTITY == [basis |-> Rotated("BASIS_Y", NoTurn),
             origin |-> Rotated(<<Real(0), Real(0), Real(0)>>, NoTurn)]

\* negate!(trs.origin.y): a rotation about UP leaves y alone
NegateY(trs) ==
    [trs EXCEPT !.origin = Rotated(<<@.of[1], SNeg(@.of[2]), @.of[3]>>, @.turn)]

\* compute_edges: the length of an edge and its distance from the center,
\* for each radius
compute_edges(vertex_count, radiuses) ==
    [i \in DOMAIN radiuses |->
        [length |-> <<0, radiuses[i][1], 0, vertex_count>>,
         distance |-> <<0, 0, radiuses[i][1], vertex_count>>]]

\* make_trs_ring: slice i (0-based) is turned by ang_start + angle * i,
\* angle = TAU / vertex_count, ang_start = angle / 2 when shift
make_trs_ring(vertex_count, initials, offsets, shift) ==
    [i \in 1..vertex_count |->
        LET turn == <<2 * (i - 1) + (IF shift THEN 1 ELSE 0), 2 * vertex_count>>
        IN  TransformBuilder([j \in DOMAIN initials |-> Rotated(initials[j], turn)],
                             [j \in DOMAIN offsets |-> Rotated(offsets[j], turn)])]

\* Transform3D::from(TransformBuilder3D<1, 1>)
FromBuilder(trs) == Unwrap(build(trs, 0, 0))

\* make_vertical_trs_ring without any transform
make_vertical_trs_ring_Empty(vertex_count, distance) == << >>

\* make_vertical_trs_ring
make_vertical_trs_ring(vertex_count, distance) ==
    LET ring == make_trs_ring(vertex_count, <<"BASIS_Y">>,
                              <<<<distance, Real(0), Real(0)>>>>, FALSE)
    IN  [i \in DOMAIN ring |-> FromBuilder(ring[i])]

make_box(x, y, z) == [kind |-> "box", dims |-> <<x, y, z>>, points |-> << >>]
make_capsule(radius, height) ==
    [kind |-> "capsule", dims |-> <<radius, SAdd(height, STwice(radius))>>, points |-> << >>]
\* make_convex: points 2i and 2i+1 are the radius turned by i/vertex_count
\* of TAU, at +half_height and -half_height
make_convex(radius, half_height, vertex_count) ==
    [kind |-> "convex", dims |-> <<radius, half_height>>,
     points |-> Flatten([i \in 1..vertex_count |->
                   <<Rotated(<<radius, half_height, Real(0)>>, <<i - 1, vertex_count>>),
                     Rotated(<<radius, SNeg(half_height), Real(0)>>, <<i - 1, vertex_count>>)>>])]

new_torus(border_radius, edge_radius, vertex_count, fill) ==
    LET edges == compute_edges(vertex_count, <<Real(border_radius)>>)
        trs == make_trs_ring(vertex_count, <<"BASIS_Z">>,
                             <<<<edges[1].distance, Real(0), Real(0)>>>>, TRUE)
    IN  [kind |-> "Torus",
         fill |-> IF fill
                  THEN Some(make_convex(Real(border_radius), Real(edge_radius), vertex_count))
                  ELSE None,
         border |-> [capsule |-> make_capsule(Real(edge_radius), edges[1].length),
                     transforms |-> [i \in DOMAIN trs |-> FromBuilder(trs[i])]]]

new_flat(outer_radius, inner_radius, edge_radius, vertex_count) ==
    LET width == outer_radius - inner_radius
        edges == compute_edges(vertex_count,
                               <<Real(outer_radius), Real(inner_radius), Half(width)>>)
    IN  [kind |-> "Flat",
         slice |-> [outer |-> make_capsule(Real(edge_radius), edges[1].length),
                    inner |-> make_capsule(Real(edge_radius), edges[2].length),
                    center |-> make_box(Real(width), STwice(Real(edge_radius)),
                                        edges[3].length)],
         transforms |-> make_trs_ring(vertex_count, <<"BASIS_Z", "BASIS_Y">>,
                            <<<<edges[1].distance, Real(0), Real(0)>>,
                              <<edges[2].distance, Real(0), Real(0)>>,
                              <<edges[3].distance, Real(0), Real(0)>>>>, TRUE)]

new_tube(border_radius, height, edge_radius, vertex_count, fill) ==
    LET edges == compute_edges(vertex_count, <<Real(border_radius)>>)
    IN  [kind |-> "Tube",
         fill |-> IF fill
                  THEN Some(make_convex(Real(border_radius),
                                        SAdd(Real(edge_radius), Half(height)), vertex_count))
                  ELSE None,
         border |-> make_capsule(Real(edge_radius), edges[1].length),
         center |-> make_box(STwice(Real(edge_radius)), Real(height), edges[1].length),
         transforms |-> make_trs_ring(vertex_count, <<"BASIS_Z", "BASIS_Y">>,
                            <<<<edges[1].distance, Half(height), Real(0)>>,
                              <<edges[1].distance, Real(0), Real(0)>>>>, TRUE),
         vertical |-> [capsule |-> make_capsule(Real(edge_radius), Real(height)),
                       transforms |-> make_vertical_trs_ring(vertex_count,
                                                             edges[1].distance)]]

new_bolt(outer_radius, inner_radius, height, edge_radius, vertex_count) ==
    LET width == outer_radius - inner_radius
        edges == compute_edges(vertex_count,
                               <<Real(outer_radius), Real(inner_radius), Half(width)>>)
    IN  [kind |-> "Bolt",
         slice |-> [outer |-> make_capsule(Real(edge_radius), edges[1].length),
                    inner |-> make_capsule(Real(edge_radius), edges[2].length),
                    center |-> make_box(Real(width), Real(height), edges[3].length)],
         center |-> make_box(Real(width), Real(height), edges[3].length),
         transforms |-> make_trs_ring(vertex_count, <<"BASIS_Z", "BASIS_Y">>,
                            <<<<edges[1].distance, Half(height), Real(0)>>,
                              <<edges[2].distance, Half(height), Real(0)>>,
                              <<edges[3].distance, Real(0), Real(0)>>>>, TRUE),
         vertical |-> [capsule |-> make_capsule(Real(edge_radius), Real(height)),
                       transforms |-> make_vertical_trs_ring(vertex_count,
                                                             edges[1].distance)]]

\* Ring::add_entries
add_entries(ring) ==
    [i \in DOMAIN ring.transforms |-> Entry(ring.capsule, Some(ring.transforms[i]))]

\* the entry of the optional fill hull
FillEntries(fill) ==
    IF fill = None THEN << >> ELSE <<Entry(Unwrap(fill), Some(IDENTITY))>>

\* the transform of an Option negated along y
NegatedY(opt) == IF opt = None THEN None ELSE Some(NegateY(Unwrap(opt)))

\* Internal::colliders of the ring: the entries pushed, in order
RingEntries(internal) ==
    CASE internal.kind = "Torus" ->
            add_entries(internal.border) \o FillEntries(internal.fill)
      [] internal.kind = "Flat" ->
            Flatten([i \in DOMAIN internal.transforms |->
                <<Entry(internal.slice.outer, build(internal.transforms[i], 0, 0)),
                  Entry(internal.slice.inner, build(internal.transforms[i], 0, 1)),
                  Entry(internal.slice.center, build(internal.transforms[i], 1, 2))>>])
      [] internal.kind = "Tube" ->
            Flatten([i \in DOMAIN internal.transforms |->
                <<Entry(internal.border, build(internal.transforms[i], 0, 0)),
                  Entry(internal.border, NegatedY(build(internal.transforms[i], 0, 0))),
                  Entry(internal.center, build(internal.transforms[i], 1, 1))>>])
            \o add_entries(internal.vertical) \o FillEntries(internal.fill)
      [] internal.kind = "Bolt" ->
            Flatten([i \in DOMAIN internal.transforms |->
                <<Entry(internal.slice.outer, build(internal.transforms[i], 0, 0)),
                  Entry(internal.slice.inner, build(internal.transforms[i], 0, 0)),
                  Entry(internal.slice.outer, NegatedY(build(internal.transforms[i], 0, 0))),
                  Entry(internal.slice.inner, NegatedY(build(internal.transforms[i], 0, 0))),
                  Entry(internal.slice.center, build(internal.transforms[i], 1, 1)),
                  Entry(internal.center, build(internal.transforms[i], 1, 1))>>])
            \o add_entries(internal.vertical)

\* the choice of colliders() with thin_border computed by >, not >=
RingGenerate_StrictThin(r) ==
    LET thin_border == r.inner_radius > r.outer_radius
        filled == r.inner_radius <= 0
    IN  IF r.height > 0
        THEN IF thin_border \/ filled
             THEN new_tube(r.outer_radius, r.height, r.edge_radius, r.vertex_count, filled)
             ELSE new_bolt(r.outer_radius, r.inner_radius, r.height, r.edge_radius,
                           r.vertex_count)
        ELSE IF thin_border \/ filled
             THEN new_torus(r.outer_radius, r.edge_radius, r.vertex_count, filled)
             ELSE new_flat(r.outer_radius, r.inner_radius, r.edge_radius, r.vertex_count)

\* GravityShapeRing3D::colliders: the internal representation generated
\* from the current parameters
RingGenerate(r) ==
    LET thin_border == r.inner_radius >= r.outer_radius
        filled == r.inner_radius <= 0
    IN  IF r.height > 0
        THEN IF thin_border \/ filled
             THEN new_tube(r.outer_radius, r.height, r.edge_radius, r.vertex_count, filled)
             ELSE new_bolt(r.outer_radius, r.inner_radius, r.height, r.edge_radius,
                           r.vertex_count)
        ELSE IF thin_border \/ filled
             THEN new_torus(r.outer_radius, r.edge_radius, r.vertex_count, filled)
             ELSE new_flat(r.outer_radius, r.inner_radius, r.edge_radius, r.vertex_count)

\* GravityShapeRing3D::init
RingInit ==
    [type |-> "GravityShapeRing3D", internal |-> None,
     outer_radius |-> DefaultOuterRadius, inner_radius |-> 0, height |-> 0,
     edge_radius |-> 0, vertex_count |-> DefaultVertexCount]

IsRing == shape.type = "GravityShapeRing3D"

\* the scalar arguments drawn for the setters
Reals == {2 * k : k \in -1..MaxHalf}

\* set_outer_radius without the clamp of the inner radius
ring_set_outer_radius_NoClamp(radius) ==
    /\ IsRing
    /\ Called("set_outer_radius", radius)
    /\ shape' = [shape EXCEPT !.outer_radius = radius, !.internal = None]
    /\ shape_ret' = None

ring_set_outer_radius(radius) ==
    /\ IsRing
    /\ Called("set_outer_radius", radius)
    /\ shape' = [shape EXCEPT !.outer_radius = radius,
                              !.inner_radius = Min(shape.inner_radius, radius),
                              !.internal = None]
    /\ shape_ret' = None

\* set_inner_radius without the clamp of the outer radius
ring_set_inner_radius_NoClamp(radius) ==
    /\ IsRing
    /\ Called("set_inner_radius", radius)
    /\ shape' = [shape EXCEPT !.inner_radius = radius, !.internal = None]
    /\ shape_ret' = None

ring_set_inner_radius(radius) ==
    /\ IsRing
    /\ Called("set_inner_radius", radius)
    /\ shape' = [shape EXCEPT !.inner_radius = radius,
                              !.outer_radius = Max(shape.outer_radius, radius),
                              !.internal = None]
    /\ shape_ret' = None

\* set_height without the invalidation of the generated shapes
ring_set_height_KeepCache(height) ==
    /\ IsRing
    /\ Called("set_height", height)
    /\ shape' = [shape EXCEPT !.height = height]
    /\ shape_ret' = None

ring_set_height(height) ==
    /\ IsRing
    /\ Called("set_height", height)
    /\ shape' = [shape EXCEPT !.height = height, !.internal = None]
    /\ shape_ret' = None

ring_set_edge_radius(radius) ==
    /\ IsRing
    /\ Called("set_edge_radius", radius)
    /\ shape' = [shape EXCEPT !.edge_radius = radius, !.internal = None]
    /\ shape_ret' = None

ring_set_vertex_count(count) ==
    /\ IsRing
    /\ Called("set_vertex_count", count)
    /\ shape' = [shape EXCEPT !.vertex_count = count, !.internal = None]
    /\ shape_ret' = None

\* Shape::colliders of the ring
ring_colliders ==
    /\ IsRing
    /\ Called("colliders", None)
    /\ LET internal == IF shape.internal = None THEN RingGenerate(shape)
                       ELSE Unwrap(shape.internal)
       IN  /\ shape' = [shape EXCEPT !.internal = Some(internal)]
           /\ shape_ret' = Some(Outcome(RingEntries(internal)))

\* the mask of GravityShapeRing3D::up: outside of the ring (0b010), inside
\* of it (0b001), above or below it (0b100)
RingOutside(r, position) == Length(flatten_y(position)) > r.outer_radius
RingInside(r, position) ==
    ~RingOutside(r, position) /\ Length(flatten_y(position)) < r.inner_radius
RingAbove(r, position) == 2 * Abs(position[2]) > r.height

\* (*position - ref_pos).normalized_or_zero() with
\* ref_pos = flatten.normalized() * radius and ref_pos.y = sign * half,
\* `direction` being flatten.normalized() scaled to the integer length
\* `dist` (the zero vector with dist = 1 for a zero vector normalized
\* without a panic)
RingCorner(r, position, direction, dist, radius) ==
    normalized_or_zero(
        <<2 * dist * position[1] - 2 * direction[1] * radius,
          dist * (2 * position[2] - sign(position[2]) * r.height),
          2 * dist * position[3] - 2 * direction[3] * radius>>)

\* the outcomes of the arms 0b101 and 0b110, which call
\* flatten.normalized(): on the axis of the ring flatten is the zero
\* vector, which normalized() refuses with a panic or returns as it is,
\* depending on the build of the bindings
RingCornerOutcomes(r, position, radius) ==
    LET flat == flatten_y(position)
    IN  IF flat = ZERO_3D
        THEN {[panicked |-> TRUE, value |-> ZERO_3D],
              [panicked |-> FALSE, value |-> RingCorner(r, position, flat, 1, radius)]}
        ELSE {[panicked |-> FALSE,
               value |-> RingCorner(r, position, flat, Length(flat), radius)]}

\* GravityShapeRing3D::up: the match on the mask
ring_up_outcomes(r, position) ==
    LET flat == flatten_y(position)
        vertical == {[panicked |-> FALSE, value |-> <<0, sign(position[2]), 0>>]}
    IN  IF RingAbove(r, position)
        THEN IF RingInside(r, position) THEN RingCornerOutcomes(r, position, r.inner_radius)
             ELSE IF RingOutside(r, position)
                  THEN RingCornerOutcomes(r, position, r.outer_radius)
                  ELSE vertical
        ELSE IF RingInside(r, position)
             THEN {[panicked |-> FALSE, value |-> normalized_or_zero(VecSub(ZERO_3D, flat))]}
             ELSE IF RingOutside(r, position)
                  THEN {[panicked |-> FALSE, value |-> normalized_or_zero(flat)]}
                  ELSE vertical

\* the positions drawn for the ring's up: on the axis below every ring, at
\* the distance 3 from the axis at the height 1 and at the depth 3, and at
\* the distance 5 from the axis at the depth 3
RingUpPoints == {<<0, -3, 0>>, <<3, 1, 0>>, <<3, -3, 0>>, <<3, -3, 4>>}

\* Shape::up of the ring
ring_up(position) ==
    /\ IsRing
    /\ \E outcome \in ring_up_outcomes(shape, position) : CalledUp(position, outcome)

RingNext ==
    \/ \E radius \in Reals : ring_set_outer_radius(radius)
    \/ \E radius \in Reals : ring_set_inner_radius(radius)
    \/ \E height \in Reals : ring_set_height(height)
    \/ \E radius \in Reals : ring_set_edge_radius(radius)
    \/ \E count \in 0..MaxVertexCount : ring_set_vertex_count(count)
    \/ ring_colliders
    \/ \E position \in RingUpPoints : ring_up(position)

(***************************************************************************)
(* GravityShapedCuboid2D / GravityShapedCuboid3D                           *)
(* (gravity/field/shaped/cuboid.rs)                                        *)
(***************************************************************************)
IDENTITY_3D == [basis |-> "BASIS_Y", origin |-> <<0, 0, 0>>]
IDENTITY_2D == [basis |-> "ROT_Y", origin |-> <<0, 0>>]

\* Vector::coord_max
coord_max(u, v) == [i \in DOMAIN u |-> Max(u[i], v[i])]
\* the vector with coordinate i increased by d
PlusAt(v, i, d) == [v EXCEPT ![i] = @ + d]

\* inner3d::Internal::new
Internal3D_new(size, radius, hollow) ==
    LET diameter == radius * 2
        face(c) == [kind |-> "box", dims |-> PlusAt(size, c, diameter), points |-> << >>]
        edge(c) == [kind |-> "capsule", dims |-> <<radius, size[c] + diameter>>,
                    points |-> << >>]
        pos(x, y, z) == <<size[1] * x, size[2] * y, size[3] * z>>
    IN  [faces |-> IF hollow THEN None ELSE Some(<<face(1), face(2), face(3)>>),
         edges |-> <<
            [capsule |-> edge(1),
             trs |-> TransformBuilder(<<"BASIS_X">>,
                        <<pos(0, 1, 1), pos(0, 1, -1), pos(0, -1, -1), pos(0, -1, 1)>>)],
            [capsule |-> edge(2),
             trs |-> TransformBuilder(<<"BASIS_Y">>,
                        <<pos(1, 0, 1), pos(-1, 0, 1), pos(-1, 0, -1), pos(1, 0, -1)>>)],
            [capsule |-> edge(3),
             trs |-> TransformBuilder(<<"BASIS_Z">>,
                        <<pos(1, 1, 0), pos(-1, 1, 0), pos(-1, -1, 0), pos(1, -1, 0)>>)]>>]

\* the loop over the edges of Internal::colliders (2D and 3D): four
\* transforms are built for each edge group, build(0, i) for i in 0..4
EdgeEntries(edges) ==
    Flatten([e \in DOMAIN edges |->
                [i \in 1..4 |-> Entry(edges[e].capsule, build(edges[e].trs, 0, i - 1))]])

\* inner3d::Internal::colliders without the internal boxes
Internal3D_entries_NoFaces(internal) == EdgeEntries(internal.edges)

\* inner3d::Internal::colliders: the entries pushed, in order
Internal3D_entries(internal) ==
    (IF internal.faces = None THEN << >>
     ELSE [i \in 1..3 |-> Entry(Unwrap(internal.faces)[i], Some(IDENTITY_3D))])
    \o EdgeEntries(internal.edges)

\* inner2d::Internal::new
Internal2D_new(size, radius, hollow) ==
    LET diameter == radius * 2
        edge(c) == [kind |-> "capsule", dims |-> <<radius, size[c] + diameter>>,
                    points |-> << >>]
        pos(x, y) == <<size[1] * x, size[2] * y>>
    IN  [center |-> IF hollow THEN None
                    ELSE Some([kind |-> "rectangle", dims |-> size, points |-> << >>]),
         edges |-> <<
            [capsule |-> edge(1),
             trs |-> TransformBuilder(<<"ROT_X">>, <<pos(0, 1), pos(0, -1)>>)],
            [capsule |-> edge(2),
             trs |-> TransformBuilder(<<"ROT_Y">>, <<pos(1, 0), pos(-1, 0)>>)]>>]

\* inner2d::Internal::colliders: the entries pushed, in order
Internal2D_entries(internal) ==
    (IF internal.center = None THEN << >>
     ELSE <<Entry(Unwrap(internal.center), Some(IDENTITY_2D))>>)
    \o EdgeEntries(internal.edges)

\* shape_cuboid init
Cuboid3DInit ==
    [type |-> "GravityShapedCuboid3D", internal |-> None,
     box_size |-> <<ONE, ONE, ONE>>, edge_radius |-> 0, hollow |-> FALSE]
Cuboid2DInit ==
    [type |-> "GravityShapedCuboid2D", internal |-> None,
     box_size |-> <<ONE, ONE>>, edge_radius |-> 0, hollow |-> FALSE]

IsCuboid == shape.type \in {"GravityShapedCuboid2D", "GravityShapedCuboid3D"}
Is3D == shape.type = "GravityShapedCuboid3D"
\* util2d::MIN_SIZE and util3d::MIN_SIZE
MIN_SIZE == IF Is3D THEN <<MIN_POSITIVE, MIN_POSITIVE, MIN_POSITIVE>>
            ELSE <<MIN_POSITIVE, MIN_POSITIVE>>

\* the scalar arguments drawn for the cuboid setters
CuboidReals == -1..MaxExtent
CuboidVectors == IF Is3D THEN CuboidReals \X CuboidReals \X CuboidReals
                 ELSE CuboidReals \X CuboidReals

\* set_box_size without the clamp to MIN_SIZE
cuboid_set_box_size_NoClamp(size) ==
    /\ IsCuboid
    /\ Called("set_box_size", size)
    /\ shape' = [shape EXCEPT !.box_size = size, !.internal = None]
    /\ shape_ret' = None

cuboid_set_box_size(size) ==
    /\ IsCuboid
    /\ Called("set_box_size", size)
    /\ shape' = [shape EXCEPT !.box_size = coord_max(size, MIN_SIZE), !.internal = None]
    /\ shape_ret' = None

cuboid_set_edge_radius(radius) ==
    /\ IsCuboid
    /\ Called("set_edge_radius", radius)
    /\ shape' = [shape EXCEPT !.edge_radius = radius, !.internal = None]
    /\ shape_ret' = None

cuboid_set_hollow(hollow) ==
    /\ IsCuboid
    /\ Called("set_hollow", hollow)
    /\ shape' = [shape EXCEPT !.hollow = hollow, !.internal = None]
    /\ shape_ret' = None

\* Shape::colliders of the cuboid
cuboid_colliders ==
    /\ IsCuboid
    /\ Called("colliders", None)
    /\ LET internal ==
               IF shape.internal # None THEN Unwrap(shape.internal)
               ELSE IF Is3D
                    THEN Internal3D_new(shape.box_size, shape.edge_radius, shape.hollow)
                    ELSE Internal2D_new(shape.box_size, shape.edge_radius, shape.hollow)
       IN  /\ shape' = [shape EXCEPT !.internal = Some(internal)]
           /\ shape_ret' = Some(Outcome(IF Is3D THEN Internal3D_entries(internal)
                                        ELSE Internal2D_entries(internal)))

\* the bit of `mask` set by `set![coord => bit]`
MaskBit(box_size, position, coord, bit) ==
    IF Abs(position[coord]) > box_size[coord] THEN bit ELSE 0

\* inner2d up_func
up_func_2d(box_size, position) ==
    LET mask == MaskBit(box_size, position, 1, 1) + MaskBit(box_size, position, 2, 2)
    IN  CASE mask = 1 -> <<sign(position[1]), 0>>
          [] mask = 2 -> <<0, sign(position[2])>>
          [] mask = 3 -> direction_to(VecMul(box_size, VecSign(position)), position)
          [] OTHER -> normalized_or_zero(position)

\* the flatten! macro of inner3d up_func, with the edge coming off the
\* cuboid's own extent whatever the side the position is on
flatten_Unsigned(box_size, flat) == direction_to(box_size, flat)

\* the flatten! macro of inner3d up_func, applied to the flattened position
flatten(box_size, flat) == direction_to(VecMul(box_size, VecSign(flat)), flat)

\* inner3d up_func with the faces' normals taken from the axes alone
up_func_3d_Unsigned(box_size, position) ==
    LET mask == MaskBit(box_size, position, 1, 1) + MaskBit(box_size, position, 2, 2)
                + MaskBit(box_size, position, 3, 4)
    IN  CASE mask = 1 -> <<1, 0, 0>>
          [] mask = 2 -> <<0, 1, 0>>
          [] mask = 4 -> <<0, 0, 1>>
          [] mask = 3 -> flatten(box_size, flatten_z(position))
          [] mask = 5 -> flatten(box_size, flatten_y(position))
          [] mask = 6 -> flatten(box_size, flatten_x(position))
          [] mask = 7 -> direction_to(VecMul(box_size, VecSign(position)), position)
          [] OTHER -> normalized_or_zero(position)

\* inner3d up_func
up_func_3d(box_size, position) ==
    LET mask == MaskBit(box_size, position, 1, 1) + MaskBit(box_size, position, 2, 2)
                + MaskBit(box_size, position, 3, 4)
    IN  CASE mask = 1 -> <<sign(position[1]), 0, 0>>
          [] mask = 2 -> <<0, sign(position[2]), 0>>
          [] mask = 4 -> <<0, 0, sign(position[3])>>
          [] mask = 3 -> flatten(box_size, flatten_z(position))
          [] mask = 5 -> flatten(box_size, flatten_y(position))
          [] mask = 6 -> flatten(box_size, flatten_x(position))
          [] mask = 7 -> direction_to(VecMul(box_size, VecSign(position)), position)
          [] OTHER -> normalized_or_zero(position)

\* the coordinates of the positions drawn for up: beyond every box on the
\* negative side, inside every box, and beyond the smaller boxes only on
\* the positive side
UpCoords == {-(MaxExtent + 2), 0, MaxExtent}
UpPoints2D == UpCoords \X UpCoords
UpPoints3D == UpCoords \X UpCoords \X UpCoords

\* Shape::up of the cuboid
cuboid_up(position) ==
    /\ IsCuboid
    /\ CalledUp(position,
                [panicked |-> FALSE,
                 value |-> IF Is3D THEN up_func_3d(shape.box_size, position)
                           ELSE up_func_2d(shape.box_size, position)])

CuboidNext ==
    \/ \E size \in CuboidVectors : cuboid_set_box_size(size)
    \/ \E radius \in CuboidReals : cuboid_set_edge_radius(radius)
    \/ \E hollow \in BOOLEAN : cuboid_set_hollow(hollow)
    \/ cuboid_colliders
    \/ \E position \in (IF Is3D THEN UpPoints3D ELSE UpPoints2D) : cuboid_up(position)

(***************************************************************************)
(* GravityShapedCurve2D (gravity/field/shaped/curve.rs)                    *)
(***************************************************************************)
\* (p0 + p1) * 0.5, exact on the even coordinates of the baked points
Midpoint(p0, p1) == <<(p0[1] + p1[1]) \div 2, (p0[2] + p1[2]) \div 2>>

\* the Curve resource with k baked points (external collaborator): a
\* zigzag of distinct points with even coordinates, and its bake interval
CurveOf(k) ==
    [points |-> [i \in 1..k |-> <<4 * i, 4 * (i % 2)>>], bake_interval |-> 2 * (k + 1)]
Curves == {CurveOf(k) : k \in 0..MaxPoints}

\* inner2d::orient
orient(direction, center) == [basis |-> direction, origin |-> center]

\* Internal::new of the curve: None when it panics.  `points.len() - 2`
\* overflows below two points: a checked build panics there, an unchecked
\* build wraps and panics on the first index out of the points' bounds.
CurveInternal_new(curve, radius) ==
    IF Len(curve.points) < 2 THEN None
    ELSE Some([shape |-> [kind |-> "capsule",
                          dims |-> <<radius, curve.bake_interval + radius * 2>>,
                          points |-> << >>],
               transforms |-> [i \in 1..(Len(curve.points) - 2) |->
                                  orient(direction_to(curve.points[i], curve.points[i + 1]),
                                         Midpoint(curve.points[i], curve.points[i + 1]))]])

\* Internal::colliders of the curve
CurveInternal_entries(internal) ==
    [i \in DOMAIN internal.transforms |->
        Entry(internal.shape, Some(internal.transforms[i]))]

\* shape_curve init
CurveInit ==
    [type |-> "GravityShapedCurve2D", internal |-> None, curve |-> None, radius |-> 0]

IsCurve == shape.type = "GravityShapedCurve2D"

curve_set_curve(curve) ==
    /\ IsCurve
    /\ Called("set_curve", curve)
    /\ shape' = [shape EXCEPT !.curve = curve, !.internal = None]
    /\ shape_ret' = None

curve_set_radius(radius) ==
    /\ IsCurve
    /\ Called("set_radius", radius)
    /\ shape' = [shape EXCEPT !.radius = radius, !.internal = None]
    /\ shape_ret' = None

\* Shape::colliders of the curve
curve_colliders ==
    /\ IsCurve
    /\ Called("colliders", None)
    /\ IF shape.curve = None
       THEN /\ shape_ret' = Some([panicked |-> FALSE, colliders |-> << >>])
            /\ UNCHANGED shape
       ELSE LET internal == IF shape.internal # None THEN shape.internal
                            ELSE CurveInternal_new(Unwrap(shape.curve), shape.radius)
            IN  /\ shape' = [shape EXCEPT !.internal = internal]
                /\ shape_ret' =
                       IF internal = None
                       THEN Some([panicked |-> TRUE, colliders |-> << >>])
                       ELSE Some(Outcome(CurveInternal_entries(Unwrap(internal))))

\* the point of the segment from a to b that is closest to p: a moved along
\* the segment by the projection of p - a, clamped to the segment (exact
\* for the segments of CurveOf and the positions of CurveUpPoints)
ClosestOnSegment(a, b, p) ==
    LET direction == VecSub(b, a)
        interval == Dot(direction, direction)
        along == Max(0, Min(interval, Dot(VecSub(p, a), direction)))
    IN  [i \in DOMAIN a |-> a[i] + (direction[i] * along) \div interval]

\* the scan of Curve2D::get_closest_point over the segments from i on,
\* keeping the first of the nearest projections
RECURSIVE NearestFrom(_, _, _, _)
NearestFrom(points, p, i, nearest) ==
    IF i >= Len(points) THEN nearest
    ELSE LET proj == ClosestOnSegment(points[i], points[i + 1], p)
             dist == Dot(VecSub(proj, p), VecSub(proj, p))
         IN  NearestFrom(points, p, i + 1,
                         IF nearest = None
                            \/ dist < Dot(VecSub(Unwrap(nearest), p), VecSub(Unwrap(nearest), p))
                         THEN Some(proj) ELSE nearest)

\* Curve2D::get_closest_point (external collaborator): the zero vector on a
\* curve without baked points, the point of a curve with one baked point,
\* else the nearest point of the baked polyline
get_closest_point(curve, p) ==
    IF Len(curve.points) = 0 THEN ZERO
    ELSE IF Len(curve.points) = 1 THEN curve.points[1]
    ELSE Unwrap(NearestFrom(curve.points, p, 1, None))

\* the outcomes of from.direction_to(to): the unit vector towards `to`, and
\* for equal points, where the difference has no direction, either a panic
\* or the zero vector, depending on the build of the bindings
direction_to_outcomes(from, to) ==
    IF from = to
    THEN {[panicked |-> TRUE, value |-> ZERO], [panicked |-> FALSE, value |-> ZERO]}
    ELSE {[panicked |-> FALSE, value |-> direction_to(from, to)]}

\* the positions drawn for the curve's up: on the baked polyline (6, 2) and
\* off it
CurveUpPoints == {2, 6} \X {2, 6}

\* Shape::up of the curve, returning a vector whatever the curve
curve_up_Closest(position) ==
    /\ IsCurve
    /\ CalledUp(position, [panicked |-> FALSE, value |-> <<1, 0>>])

\* Shape::up of the curve
curve_up(position) ==
    /\ IsCurve
    /\ IF shape.curve = None
       THEN CalledUp(position, [panicked |-> FALSE, value |-> ZERO])
       ELSE \E outcome \in direction_to_outcomes(
                                get_closest_point(Unwrap(shape.curve), position), position) :
                CalledUp(position, outcome)

CurveNext ==
    \/ \E curve \in {None} \cup {Some(c) : c \in Curves} : curve_set_curve(curve)
    \/ \E radius \in Reals : curve_set_radius(radius)
    \/ curve_colliders
    \/ \E position \in CurveUpPoints : curve_up(position)

(***************************************************************************)
(* Gravity fields (gravity/field/{flat,center,axial3d,conic3d,shaped}.rs)  *)
(*                                                                         *)
(* A vector handed out by a field is a record of the primitive integer     *)
(* vector of its ray (dir) and of its length (len), a rational <<n, d>> in *)
(* lowest terms: the vector is dir scaled to the length len.               *)
(***************************************************************************)
\* a rational in lowest terms with a positive denominator
Rat(n, d) ==
    LET g == Gcd(Abs(n), Abs(d)) IN <<sign(d) * (n \div g), Abs(d) \div g>>
RAdd(a, b) == Rat(a[1] * b[2] + b[1] * a[2], a[2] * b[2])
RMul(a, b) == Rat(a[1] * b[1], a[2] * b[2])
RDiv(a, b) == Rat(a[1] * b[2], a[2] * b[1])

\* Vector::normalized_or_zero as a vector of the fields
UnitOrZero(v) ==
    [dir |-> normalized_or_zero(v), len |-> IF GcdOf(v) = 0 THEN <<0, 1>> ELSE <<1, 1>>]
\* the negation of a vector
Neg(u) == [dir |-> [i \in DOMAIN u.dir |-> -u.dir[i]], len |-> u.len]
IsUnitOrZero(u) ==
    \/ u.len = <<1, 1>> /\ GcdOf(u.dir) = 1
    \/ u.len = <<0, 1>> /\ GcdOf(u.dir) = 0

\* the global transform of a node (external collaborator): a rotation that
\* maps the axes onto axes, each entry naming the signed source axis of a
\* coordinate, a uniform scale and an origin
Rotations2D == {<<1, 2>>, <<-2, 1>>}
Rotations3D == {<<1, 2, 3>>, <<-2, 1, 3>>}
Scales == 1..MaxScale
Transforms2D ==
    [rotation : Rotations2D, scale : Scales, origin : {<<0, 0>>, <<4, 0>>}]
Transforms3D ==
    [rotation : Rotations3D, scale : Scales, origin : {<<0, 0, 0>>, <<4, 0, 0>>}]
IDENTITY_TRANSFORM_2D == [rotation |-> <<1, 2>>, scale |-> 1, origin |-> <<0, 0>>]
IDENTITY_TRANSFORM_3D == [rotation |-> <<1, 2, 3>>, scale |-> 1, origin |-> <<0, 0, 0>>]

\* the rotation applied to an integer vector
Rot(rotation, v) == [i \in DOMAIN v |-> sign(rotation[i]) * v[Abs(rotation[i])]]
\* the inverse of a rotation
RotInverse(rotation) ==
    [i \in DOMAIN rotation |->
        LET j == CHOOSE k \in DOMAIN rotation : Abs(rotation[k]) = i
        IN  sign(rotation[j]) * j]

\* Vector2::rotated(get_global_rotation()): the angle of the transform,
\* without its scale
rotated(u, transform) == [dir |-> Rot(transform.rotation, u.dir), len |-> u.len]
\* get_global_basis() * vector: the rotation and the scale of the transform
basis_mul(transform, u) ==
    [dir |-> Rot(transform.rotation, u.dir),
     len |-> RMul(u.len, <<transform.scale, 1>>)]
\* get_global_basis().inverse() * vector
basis_inverse_mul(transform, u) ==
    [dir |-> Rot(RotInverse(transform.rotation), u.dir),
     len |-> RDiv(u.len, <<transform.scale, 1>>)]

\* init of the fields
Flat2DInit ==
    [type |-> "GravityFlat2D", level |-> 0, axis |-> "Y", inverted |-> FALSE,
     transform |-> IDENTITY_TRANSFORM_2D]
Flat3DInit ==
    [type |-> "GravityFlat3D", level |-> 0, axis |-> "Y", inverted |-> FALSE,
     transform |-> IDENTITY_TRANSFORM_3D]
Center2DInit ==
    [type |-> "GravityCenter2D", level |-> 0, inverted |-> FALSE,
     transform |-> IDENTITY_TRANSFORM_2D]
Center3DInit ==
    [type |-> "GravityCenter3D", level |-> 0, inverted |-> FALSE,
     transform |-> IDENTITY_TRANSFORM_3D]
Axial3DInit ==
    [type |-> "GravityAxial3D", level |-> 0, axis |-> "Y", inverted |-> FALSE,
     transform |-> IDENTITY_TRANSFORM_3D]
Conic3DInit ==
    [type |-> "GravityConic3D", level |-> 0, height |-> DefaultConeHeight,
     radius |-> DefaultConeRadius, axis |-> "Y", inverted |-> FALSE,
     transform |-> IDENTITY_TRANSFORM_3D]
Shaped2DInit ==
    [type |-> "GravityShaped2D", level |-> 0, shape |-> None, build_collider |-> FALSE,
     inverted |-> FALSE, transform |-> IDENTITY_TRANSFORM_2D]
Shaped3DInit ==
    [type |-> "GravityShaped3D", level |-> 0, shape |-> None, build_collider |-> FALSE,
     inverted |-> FALSE, transform |-> IDENTITY_TRANSFORM_3D]
Bridge3DInit ==
    [type |-> "GravityBridge3D", level |-> 0, points |-> << >>,
     transform |-> IDENTITY_TRANSFORM_3D]

Is2DField(f) == f.type \in {"GravityFlat2D", "GravityCenter2D", "GravityShaped2D"}
HasAxis(f) == f.type \in {"GravityFlat2D", "GravityFlat3D", "GravityAxial3D", "GravityConic3D"}
IsBridge(f) == f.type = "GravityBridge3D"
IsConic(f) == f.type = "GravityConic3D"

\* Axis2D::to_vector and Axis3D::to_vector: RIGHT, UP and FORWARD
to_vector_2d(axis) == IF axis = "X" THEN <<1, 0>> ELSE <<0, -1>>
to_vector_3d(axis) ==
    CASE axis = "X" -> <<1, 0, 0>>
      [] axis = "Y" -> <<0, 1, 0>>
      [] axis = "Z" -> <<0, 0, -1>>

\* `if self.inverted { -up } else { up }`
Inverted(f, up) == IF f.inverted THEN Neg(up) ELSE up

\* the match of GravityAxial3D::local_up and GravityConic3D::local_up on the
\* axis
flatten_axis(axis, position) ==
    CASE axis = "X" -> flatten_x(position)
      [] axis = "Y" -> flatten_y(position)
      [] axis = "Z" -> flatten_z(position)
AxisIndex(axis) == CASE axis = "X" -> 1 [] axis = "Y" -> 2 [] axis = "Z" -> 3

\* GravityAxial3D::local_up
axial_local_up(f, position) ==
    Inverted(f, UnitOrZero(flatten_axis(f.axis, position)))

\* GravityConic3D::local_up with the coordinate along the axis left at zero
conic_local_up_Flat(f, position) ==
    Inverted(f, UnitOrZero([i \in 1..3 |-> flatten_axis(f.axis, position)[i] * f.height]))

\* GravityConic3D::local_up
conic_local_up(f, position) ==
    LET v == flatten_axis(f.axis, position)
        len == Length(v)
    IN  Inverted(f, UnitOrZero([i \in 1..3 |-> IF i = AxisIndex(f.axis) THEN f.radius * len
                                               ELSE v[i] * f.height]))

\* Field::local_up of the fields other than the bridge
local_up(f, position) ==
    CASE f.type = "GravityFlat2D" -> Inverted(f, UnitOrZero(to_vector_2d(f.axis)))
      [] f.type = "GravityFlat3D" -> Inverted(f, UnitOrZero(to_vector_3d(f.axis)))
      [] f.type \in {"GravityCenter2D", "GravityCenter3D"} ->
             Inverted(f, UnitOrZero(position))
      [] f.type = "GravityAxial3D" -> axial_local_up(f, position)
      [] f.type = "GravityConic3D" -> conic_local_up(f, position)
      [] f.type = "GravityShaped2D" -> Inverted(f, UnitOrZero(ZERO))
      [] f.type = "GravityShaped3D" -> Inverted(f, UnitOrZero(ZERO_3D))

\* util2d::global_direction and util3d::global_direction
global_direction_2d(f, position) == rotated(local_up(f, position), f.transform)
global_direction_3d(f, position) == basis_mul(f.transform, local_up(f, position))

\* Field::global_up of the fields other than the bridge
global_up(f, position) ==
    IF Is2DField(f) THEN global_direction_2d(f, position)
    ELSE global_direction_3d(f, position)

(***************************************************************************)
(* GravityBridge3D (gravity/field/bridge3d.rs)                             *)
(***************************************************************************)
\* Plane (external collaborator): the points p with normal . p = d, the
\* normal being an axis; is_point_over, distance_to and project
is_point_over(plane, p) == Dot(plane.normal, p) > plane.d
distance_to(plane, p) == Dot(plane.normal, p) - plane.d
project(plane, p) == [i \in DOMAIN p |-> p[i] - plane.normal[i] * distance_to(plane, p)]

\* BridgePoint::get_global_plane: the transform of the referenced field
\* applied to the local plane
get_global_plane(point) ==
    LET normal == Rot(point.field.transform.rotation, point.local_plane.normal)
    IN  [normal |-> normal,
         d |-> point.field.transform.scale * point.local_plane.d
               + Dot(normal, point.field.transform.origin)]

\* the vector of a field as a rational vector: integer numerators over a
\* common denominator (for directions of integer length)
Exact(u) == [num |-> [i \in DOMAIN u.dir |-> u.dir[i] * u.len[1]],
             den |-> u.len[2] * Max(1, Length(u.dir))]
\* sum_up += up * weight
Accumulate(sum, up, weight) ==
    [num |-> [i \in DOMAIN sum.num |->
                 sum.num[i] * Exact(up).den * weight[2] + Exact(up).num[i] * weight[1] * sum.den],
     den |-> sum.den * Exact(up).den * weight[2]]
RECURSIVE Blend(_, _, _, _)
Blend(ups, weights, i, sum) ==
    IF i > Len(ups) THEN sum
    ELSE Blend(ups, weights, i + 1, Accumulate(sum, ups[i], weights[i]))
\* sum_up.normalized_or_zero() over the blended directions
blend_normalized_or_zero(ups, weights) ==
    LET sum == Blend(ups, weights, 1, [num |-> ZERO_3D, den |-> 1])
    IN  UnitOrZero([i \in 1..3 |-> sum.num[i] * sign(sum.den)])

\* Vector3::cross
cross(u, v) == <<u[2] * v[3] - u[3] * v[2], u[3] * v[1] - u[1] * v[3],
                 u[1] * v[2] - u[2] * v[1]>>
\* InsideData::compute_tangent_angle: the tangent of half the angle between
\* two translations, |u x v| / (|u| |v| + u . v) (for translations that are
\* not opposite)
compute_tangent_angle(translation, next_direction) ==
    Rat(Length(cross(translation, next_direction)),
        Length(translation) * Length(next_direction) + Dot(translation, next_direction))

\* the tangents of the all-above branch: of above[index] with
\* above[index + 1] below `last`, and of above[last] with above[0]
TanAngles(above) ==
    [i \in DOMAIN above |->
        compute_tangent_angle(above[i].translation,
                              above[IF i = Len(above) THEN 1 ELSE i + 1].translation)]

\* the weights of the all-above branch with every point weighted from the
\* tangents before and at it, cyclically
InsideWeights_Cyclic(above) ==
    LET tan == TanAngles(above)
    IN  [i \in DOMAIN above |->
            RDiv(RAdd(tan[IF i = 1 THEN Len(above) ELSE i - 1], tan[i]),
                 <<above[i].distance, 1>>)]

\* the weights of the all-above branch (InsideData::compute_weigth): the
\* loop `for index in 1..above.len()` leaves above[0] at its initial weight
\* 0.0, and the call that follows it overwrites the weight of above[last]
\* with its own tangent taken twice
InsideWeights(above) ==
    LET tan == TanAngles(above)
    IN  [i \in DOMAIN above |->
            IF i = Len(above) THEN RDiv(RAdd(tan[i], tan[i]), <<above[i].distance, 1>>)
            ELSE IF i = 1 THEN <<0, 1>>
            ELSE RDiv(RAdd(tan[i - 1], tan[i]), <<above[i].distance, 1>>)]

\* the weights of the branch with points below: (1 / distance) over the sum
\* of the inverse distances
RECURSIVE RSum(_)
RSum(rs) == IF rs = << >> THEN <<0, 1>> ELSE RAdd(Head(rs), RSum(Tail(rs)))
\* the weights of the branch with points below with every point weighted
\* alike
OutsideWeights_Uniform(below) == [i \in DOMAIN below |-> <<1, Len(below)>>]
OutsideWeights(below) ==
    LET weight == [i \in DOMAIN below |-> RDiv(<<1, 1>>, <<below[i].distance, 1>>)]
    IN  [i \in DOMAIN below |-> RDiv(weight[i], RSum(weight))]

\* the points of the bridge that hold position over their plane, in order
RECURSIVE SelectPoints(_, _, _)
SelectPoints(points, position, over) ==
    IF points = << >> THEN << >>
    ELSE (IF is_point_over(get_global_plane(Head(points)), position) = over
          THEN <<Head(points)>> ELSE << >>)
         \o SelectPoints(Tail(points), position, over)

\* InsideData::new with the up direction of the field taken at the position
\* itself
InsideData_Unprojected(point, position) ==
    [up |-> global_up(point.field, position),
     translation |-> VecSub(position, project(get_global_plane(point), position)),
     distance |-> distance_to(get_global_plane(point), position)]
\* InsideData::new for a point of the bridge
InsideData(point, position) ==
    LET plane == get_global_plane(point)
        projected == project(plane, position)
    IN  [up |-> global_up(point.field, projected),
         translation |-> VecSub(position, projected),
         distance |-> distance_to(plane, position)]
\* OutsideData::new for a point of the bridge
OutsideData(point, position) ==
    [up |-> global_up(point.field, position),
     distance |-> distance_to(get_global_plane(point), position)]

\* the blend of the bridge over its points
bridge_blend(f, position) ==
    LET over == SelectPoints(f.points, position, TRUE)
        under == SelectPoints(f.points, position, FALSE)
        above == [i \in DOMAIN over |-> InsideData(over[i], position)]
        below == [i \in DOMAIN under |-> OutsideData(under[i], position)]
    IN  IF below = << >>
        THEN IF Len(above) > 1
             THEN [panicked |-> FALSE,
                   value |-> blend_normalized_or_zero([i \in DOMAIN above |-> above[i].up],
                                                      InsideWeights(above))]
             ELSE IF above = << >>
                  THEN [panicked |-> TRUE, value |-> UnitOrZero(ZERO_3D)]
                  ELSE [panicked |-> FALSE, value |-> above[1].up]
        ELSE IF Len(below) > 1
             THEN [panicked |-> FALSE,
                   value |-> blend_normalized_or_zero([i \in DOMAIN below |-> below[i].up],
                                                      OutsideWeights(below))]
             ELSE [panicked |-> FALSE, value |-> below[1].up]

\* GravityBridge3D::global_up without the test of an empty list: above[0]
\* is then out of bounds
bridge_global_up_NoEmptyTest(f, position) == bridge_blend(f, position)

\* GravityBridge3D::global_up
bridge_global_up(f, position) ==
    IF f.points = << >> THEN [panicked |-> FALSE, value |-> UnitOrZero(ZERO_3D)]
    ELSE bridge_blend(f, position)

\* GravityBridge3D::local_up
bridge_local_up(f, position) ==
    LET global == bridge_global_up(f, position)
    IN  [panicked |-> global.panicked,
         value |-> basis_inverse_mul(f.transform, global.value)]

(***************************************************************************)
(* The operations on a field                                               *)
(***************************************************************************)
\* the coordinates of the positions drawn for the fields
FieldCoords == {-3, 0, 4}
\* the positions drawn for a field: for the cone, those whose distance to
\* the axis is an integer
FieldPoints(f) ==
    IF Is2DField(f) THEN FieldCoords \X FieldCoords
    ELSE IF IsConic(f)
         THEN {p \in FieldCoords \X FieldCoords \X FieldCoords :
                  HasLength(flatten_axis(f.axis, p))}
         ELSE FieldCoords \X FieldCoords \X FieldCoords

\* a setter of the field: the query object and the shape are not touched
\* (the priority level, which no up direction depends on, stays as init
\* set it)
FieldSet(f) ==
    /\ field' = f
    /\ field_ret' = None
    /\ UNCHANGED <<freed, query_vars, shape_vars>>

\* a read of the field that returns an up direction
FieldReturns(op, position, outcome) ==
    /\ field_ret' = Some([op |-> op, position |-> position,
                          panicked |-> outcome.panicked, value |-> outcome.value])
    /\ UNCHANGED <<field, freed, query_vars, shape_vars>>

\* the exported property `axis`
field_set_axis(axis) ==
    /\ HasAxis(field)
    /\ axis = "Z" => ~Is2DField(field)
    /\ FieldSet([field EXCEPT !.axis = axis])

\* the exported property `inverted`
field_set_inverted(inverted) ==
    /\ ~IsBridge(field)
    /\ FieldSet([field EXCEPT !.inverted = inverted])

\* the exported properties `height` and `radius` of the cone
conic_set_height(height) ==
    /\ IsConic(field)
    /\ FieldSet([field EXCEPT !.height = height])
conic_set_radius(radius) ==
    /\ IsConic(field)
    /\ FieldSet([field EXCEPT !.radius = radius])

\* the transforms drawn for the node of a field; the bridge reads the basis
\* of its node only, which is left at the origin
FieldTransforms(f) ==
    IF Is2DField(f) THEN Transforms2D
    ELSE IF IsBridge(f) THEN {t \in Transforms3D : t.origin = ZERO_3D}
    ELSE Transforms3D

\* the node of the field is moved in the scene
set_global_transform(transform) == FieldSet([field EXCEPT !.transform = transform])

\* the outcomes of a call that goes through the handles of the bridge's
\* points (get_global_transform and dyn_bind on each of them, as soon as the
\* list is not empty): with a freed node behind a handle, a build that
\* checks the handle panics and a build that does not reads the memory of
\* the freed node, here still holding what the node held
HandleOutcomes(outcome) ==
    IF IsBridge(field) /\ field.points # << >> /\ freed # {}
    THEN {[panicked |-> TRUE, value |-> UnitOrZero(ZERO_3D)], outcome}
    ELSE {outcome}

\* Field::local_up
field_local_up(position) ==
    \E outcome \in HandleOutcomes(IF IsBridge(field) THEN bridge_local_up(field, position)
                                   ELSE [panicked |-> FALSE,
                                         value |-> local_up(field, position)]) :
        FieldReturns("local_up", position, outcome)

\* get_up_direction, that is Field::global_up
get_up_direction(position) ==
    \E outcome \in HandleOutcomes(IF IsBridge(field) THEN bridge_global_up(field, position)
                                   ELSE [panicked |-> FALSE,
                                         value |-> global_up(field, position)]) :
        FieldReturns("global_up", position, outcome)

FieldNext ==
    \/ \E axis \in {"X", "Y", "Z"} : field_set_axis(axis)
    \/ \E inverted \in BOOLEAN : field_set_inverted(inverted)
    \/ \E height \in 0..MaxCone : conic_set_height(height)
    \/ \E radius \in 0..MaxCone : conic_set_radius(radius)
    \/ \E transform \in FieldTransforms(field) : set_global_transform(transform)
    \/ \E position \in FieldPoints(field) : field_local_up(position)
    \/ \E position \in FieldPoints(field) : get_up_direction(position)

\* the points drawn for a bridge: Flat fields whose up is the normal of their
\* delimiting plane, x > 1, y > 1 and z > 2; no position of FieldPoints lies
\* on a plane
BridgePointOf(axis, inverted, origin, normal, d) ==
    [field |-> [Flat3DInit EXCEPT !.axis = axis, !.inverted = inverted,
                                  !.transform.origin = origin],
     local_plane |-> [normal |-> normal, d |-> d]]
BridgePoints ==
    {BridgePointOf("X", FALSE, <<0, 0, 0>>, <<1, 0, 0>>, 1),
     BridgePointOf("Y", FALSE, <<0, 0, 0>>, <<0, 1, 0>>, 1),
     BridgePointOf("Z", TRUE, <<4, 0, 0>>, <<0, 0, 1>>, 2)}
\* a point whose field has an up direction that depends on the position: a
\* Center field at the origin, delimited by the plane x > 1
CenterBridgePoint ==
    [field |-> Center3DInit, local_plane |-> [normal |-> <<1, 0, 0>>, d |-> 1]]
\* the bridges drawn: every ordered list of at most MaxBridgePoints points
\* over Flat fields, and the bridge of the one point over the Center field
BridgeInputs ==
    {[Bridge3DInit EXCEPT !.points = points] :
        points \in UNION {Arrangements(BridgePoints, n) : n \in 0..MaxBridgePoints}}
    \cup {[Bridge3DInit EXCEPT !.points = <<CenterBridgePoint>>]}

BridgeNext ==
    \/ \E transform \in FieldTransforms(field) : set_global_transform(transform)
    \/ \E position \in FieldPoints(field) : field_local_up(position)
    \/ \E position \in FieldPoints(field) : get_up_direction(position)

\* the exported property `level`
FieldLevels == {0, 1}
field_set_level(level) == FieldSet([field EXCEPT !.level = level])

\* the operations a GravityBridge3D node exposes: the exported property
\* `level`, get_up_direction, the transform of its node and, for its trait,
\* local_up; the field `points` is not exported and the class has no
\* method that writes it
BridgeNodeNext ==
    \/ BridgeNext
    \/ \E level \in FieldLevels : field_set_level(level)

\* the scene frees the node of the field a point of the bridge refers to
\* (Node::queue_free or Gd::free on the Area3D): the bridge is not told and
\* its point keeps the handle
free_field(index) ==
    /\ IsBridge(field)
    /\ index \in DOMAIN field.points
    /\ index \notin freed
    /\ freed' = freed \cup {index}
    /\ field_ret' = None
    /\ UNCHANGED <<field, query_vars, shape_vars>>

\* the bridge in a scene that frees the fields it refers to
LifetimeNext ==
    \/ \E index \in 1..MaxBridgePoints : free_field(index)
    \/ \E position \in FieldPoints(field) : get_up_direction(position)

(***************************************************************************)
(* Claims about the query resolver                                         *)
(***************************************************************************)
\* the last call was op and the spatial query returned results
Returned(op) == q_ret # None /\ q_call # None /\ Unwrap(q_ret).op = op
LastResults == Unwrap(q_call).results
LastPosition == Unwrap(q_call).position

AllFields(results) == \A i \in DOMAIN results : IsField(results[i])
MaxLevel(results) ==
    CHOOSE l \in {FieldLevel(results[i]) : i \in DOMAIN results} :
        \A i \in DOMAIN results : FieldLevel(results[i]) <= l
IsWinner(results, a) == FieldLevel(a) = MaxLevel(results)
Winners(results) ==
    LET Test(a) == IsWinner(results, a) IN SelectSeq(results, Test)
RECURSIVE SumGlobalUp(_, _)
SumGlobalUp(fields, pos) ==
    IF fields = << >> THEN ZERO
    ELSE VecAdd(FieldGlobalUp(Head(fields), pos), SumGlobalUp(Tail(fields), pos))

\* C1: for every non-empty sequence of fields returned by the spatial query,
\* in any order, gravity_direction returns as contributor list exactly the
\* fields of the maximum level, in result order, and as vector the
\* normalize-or-zero of the sum of their global_up at the point.
C1_WinnersOnly ==
    (Returned("gravity_direction") /\ LastResults # << >> /\ AllFields(LastResults))
    => Unwrap(q_ret).value =
           Some([up |-> normalized_or_zero(SumGlobalUp(Winners(LastResults), LastPosition)),
                 fields |-> Winners(LastResults)])

\* C1 witness: a call whose results hold a lower field before the winning
\* fields and another lower field after them, with two winners
C1_Witness ==
    /\ Returned("gravity_direction") /\ AllFields(LastResults)
    /\ \E i, j, k \in DOMAIN LastResults :
          /\ i < j /\ j < k
          /\ ~IsWinner(LastResults, LastResults[i])
          /\ IsWinner(LastResults, LastResults[j])
          /\ ~IsWinner(LastResults, LastResults[k])
    /\ Len(Winners(LastResults)) >= 2
    /\ Unwrap(Unwrap(q_ret).value).fields = Winners(LastResults)

\* C2: when the spatial query returns no overlapping volume,
\* gravity_direction returns None and find_gravity_direction returns an
\* empty dictionary.
C2_NoField ==
    (q_ret # None /\ q_call # None /\ LastResults = << >>)
    => Unwrap(q_ret).value = {}

\* C2 witness: find_gravity_direction returned after an empty spatial query
C2_Witness ==
    /\ Returned("find_gravity_direction")
    /\ LastResults = << >>
    /\ Unwrap(q_ret).value = {}

\* C3: the spatial query of gravity_direction is issued with the collision
\* mask last passed to set_collision_mask.
C3_QueryUsesConfiguredMask ==
    q_call # None => Unwrap(q_call).mask = collision_mask

\* C29: whenever gravity_direction returns a result instead of "no field",
\* the contributor list is not empty: a zero vector that is returned comes
\* with a contributing field or more, also when the spatial query returns
\* overlapping volumes that are not gravity fields.
C29_ResultHasContributor ==
    (Returned("gravity_direction") /\ Unwrap(q_ret).value # None) =>
        /\ Unwrap(Unwrap(q_ret).value).fields # << >>
        /\ \A i \in DOMAIN Unwrap(Unwrap(q_ret).value).fields :
               IsField(Unwrap(Unwrap(q_ret).value).fields[i])

(***************************************************************************)
(* Claims about the shapes                                                 *)
(***************************************************************************)
LastRet == Unwrap(shape_ret)
LastCall == Unwrap(shape_call)
\* the number of colliders of a list whose shape is of a kind
CountKind(colliders, kind) ==
    Cardinality({i \in DOMAIN colliders : colliders[i].shape.kind = kind})

\* what colliders() returns when the list is generated anew from the
\* parameters of shape s
FreshOutcome(s) ==
    CASE s.type = "GravityShapeRing3D" -> Outcome(RingEntries(RingGenerate(s)))
      [] s.type = "GravityShapedCuboid3D" ->
            Outcome(Internal3D_entries(Internal3D_new(s.box_size, s.edge_radius, s.hollow)))
      [] s.type = "GravityShapedCuboid2D" ->
            Outcome(Internal2D_entries(Internal2D_new(s.box_size, s.edge_radius, s.hollow)))
      [] s.type = "GravityShapedCurve2D" ->
            IF s.curve = None THEN [panicked |-> FALSE, colliders |-> << >>]
            ELSE IF CurveInternal_new(Unwrap(s.curve), s.radius) = None
                 THEN [panicked |-> TRUE, colliders |-> << >>]
                 ELSE Outcome(CurveInternal_entries(
                          Unwrap(CurveInternal_new(Unwrap(s.curve), s.radius))))

\* C4: for the cuboid, the ring and the curve follower, after any
\* interleaving of setter calls and colliders() calls, every colliders()
\* call returns what a fresh generation from the current parameters returns.
C4_CacheConsistent ==
    shape_ret # None => LastRet = FreshOutcome(shape)

\* C4 witness: colliders() returned a list for a ring whose height, inner
\* radius and vertex count were changed by setters
C4_Witness ==
    /\ IsRing /\ shape_ret # None
    /\ shape.height > 0 /\ shape.inner_radius > 0
    /\ shape.vertex_count = MaxVertexCount
    /\ Len(LastRet.colliders) > 0
    /\ LastCall.op = "colliders"

\* C5: in every reachable state of a ring, inner_radius <= outer_radius.
C5_InnerAtMostOuter ==
    IsRing => shape.inner_radius <= shape.outer_radius

\* C5 witness: set_inner_radius was called with a radius above the outer
\* radius
C5_Witness ==
    /\ IsRing /\ shape_call # None
    /\ LastCall.op = "set_inner_radius"
    /\ LastCall.arg > LastCall.before.outer_radius
    /\ shape.inner_radius <= shape.outer_radius

\* C6: set_outer_radius(r) with r below the inner radius leaves both
\* radiuses at r, set_inner_radius(r) with r above the outer radius leaves
\* both at r, and a radius that does not cross the other one leaves the
\* other one unchanged.
C6_RadiusClamp ==
    (IsRing /\ shape_call # None) =>
        /\ LastCall.op = "set_outer_radius" =>
              /\ shape.outer_radius = LastCall.arg
              /\ shape.inner_radius =
                     IF LastCall.arg < LastCall.before.inner_radius
                     THEN LastCall.arg ELSE LastCall.before.inner_radius
        /\ LastCall.op = "set_inner_radius" =>
              /\ shape.inner_radius = LastCall.arg
              /\ shape.outer_radius =
                     IF LastCall.arg > LastCall.before.outer_radius
                     THEN LastCall.arg ELSE LastCall.before.outer_radius

\* C6 witness: set_outer_radius was called with a radius below the inner
\* radius
C6_Witness ==
    /\ IsRing /\ shape_call # None
    /\ LastCall.op = "set_outer_radius"
    /\ LastCall.arg < LastCall.before.inner_radius
    /\ shape.inner_radius = LastCall.arg

RingKind == Unwrap(shape.internal).kind
RingHasFill == RingKind \in {"Torus", "Tube"} /\ Unwrap(shape.internal).fill # None
RingThinOrFilled ==
    shape.inner_radius = 0 \/ shape.inner_radius >= shape.outer_radius
RingAnnulus == 0 < shape.inner_radius /\ shape.inner_radius < shape.outer_radius

\* C7: the ring's colliders() chooses Torus for height = 0 and (inner = 0
\* or inner >= outer), Flat for height = 0 and 0 < inner < outer, Tube for
\* height > 0 and (inner = 0 or inner >= outer), Bolt for height > 0 and
\* 0 < inner < outer; a fill hull is generated exactly when inner <= 0.
C7_Representation ==
    (IsRing /\ shape.internal # None) =>
        /\ (shape.height = 0 /\ RingThinOrFilled) => RingKind = "Torus"
        /\ (shape.height = 0 /\ RingAnnulus) => RingKind = "Flat"
        /\ (shape.height > 0 /\ RingThinOrFilled) => RingKind = "Tube"
        /\ (shape.height > 0 /\ RingAnnulus) => RingKind = "Bolt"
        /\ RingHasFill <=> shape.inner_radius <= 0

\* C7 witness: a ring of no height whose positive inner radius equals the
\* outer radius was generated as a Torus without fill
C7_Witness ==
    /\ IsRing /\ shape.internal # None
    /\ shape.height = 0
    /\ shape.inner_radius > 0 /\ shape.inner_radius = shape.outer_radius
    /\ RingKind = "Torus" /\ ~RingHasFill

\* C8: with vertex_count = n the ring's colliders() returns n capsules plus
\* one fill hull when solid for Torus, 3n primitives (2n capsules, n boxes)
\* for Flat, 4n primitives (3n capsules, n boxes) plus one fill hull when
\* solid for Tube, and 7n primitives (5n capsules, 2n boxes) for Bolt.
C8_ColliderCount ==
    (IsRing /\ shape_ret # None) =>
        LET n == shape.vertex_count
            list == LastRet.colliders
            hull == IF shape.inner_radius <= 0 THEN 1 ELSE 0
        IN  /\ ~LastRet.panicked
            /\ RingKind = "Torus" =>
                  /\ Len(list) = n + hull
                  /\ CountKind(list, "capsule") = n
                  /\ CountKind(list, "convex") = hull
            /\ RingKind = "Flat" =>
                  /\ Len(list) = 3 * n
                  /\ CountKind(list, "capsule") = 2 * n
                  /\ CountKind(list, "box") = n
            /\ RingKind = "Tube" =>
                  /\ Len(list) = 4 * n + hull
                  /\ CountKind(list, "capsule") = 3 * n
                  /\ CountKind(list, "box") = n
                  /\ CountKind(list, "convex") = hull
            /\ RingKind = "Bolt" =>
                  /\ Len(list) = 7 * n
                  /\ CountKind(list, "capsule") = 5 * n
                  /\ CountKind(list, "box") = 2 * n

\* C8 witness: a solid Tube of MaxVertexCount slices returned its colliders
C8_Witness ==
    /\ IsRing /\ shape_ret # None
    /\ RingKind = "Tube" /\ RingHasFill
    /\ shape.vertex_count = MaxVertexCount
    /\ Len(LastRet.colliders) = 4 * MaxVertexCount + 1

C10_Cuboid2DColliders ==
    (IsCuboid /\ ~Is3D /\ shape_ret # None) =>
        /\ ~LastRet.panicked
        /\ Len(LastRet.colliders) = (IF shape.hollow THEN 0 ELSE 1) + 4

\* C11: in every state of a cuboid reached by set_box_size, set_edge_radius
\* and set_hollow calls with any argument, every component of box_size is at
\* least the minimum positive value.
C11_BoxSizeAtLeastMin ==
    IsCuboid => \A i \in DOMAIN shape.box_size : shape.box_size[i] >= MIN_POSITIVE

\* set_box_size was just called with a negative, a zero and a subnormal
\* component
C11_Witness ==
    /\ Is3D /\ shape_call # None
    /\ LastCall.op = "set_box_size"
    /\ LastCall.arg = <<-1, 0, 1>>
    /\ shape.box_size = <<MIN_POSITIVE, MIN_POSITIVE, MIN_POSITIVE>>

(***************************************************************************)
(* Claims about Shape::up of the cuboid                                    *)
(***************************************************************************)
UpReturned == shape_up # None /\ shape_call # None /\ LastCall.op = "up"
LastUp == Unwrap(shape_up)
\* the axes on which the position of the last up call lies beyond the box
Exceeded == {i \in DOMAIN shape.box_size : Abs(LastCall.arg[i]) > shape.box_size[i]}

\* C12: for a point beyond the box extent on exactly one axis, the cuboid's
\* up is the unit vector along that axis with the sign of the point's
\* coordinate on it and zero on every other coordinate, in 2D and in 3D.
C12_FaceNormal ==
    (IsCuboid /\ UpReturned /\ Cardinality(Exceeded) = 1) =>
        /\ ~LastUp.panicked
        /\ \A i \in DOMAIN shape.box_size :
               LastUp.value[i] = IF i \in Exceeded THEN sign(LastCall.arg[i]) ELSE 0
        /\ \E i \in Exceeded : Abs(LastUp.value[i]) = 1

\* up was called on a 3D cuboid for a point below its -y face only
C12_Witness ==
    /\ Is3D /\ UpReturned
    /\ Exceeded = {2}
    /\ LastCall.arg[2] < 0
    /\ LastCall.arg[1] # 0
    /\ LastUp.value = <<0, -1, 0>>

\* C13: for a 3D point beyond the box extent on exactly two axes, up is the
\* direction from the edge point (box extent times the point's sign on the
\* two exceeded axes) to the point flattened along the third axis: zero on
\* the third axis, non-zero with the point's sign on both exceeded axes.
C13_EdgeDirection ==
    (Is3D /\ UpReturned /\ Cardinality(Exceeded) = 2) =>
        LET p == LastCall.arg
            flat == [i \in 1..3 |-> IF i \in Exceeded THEN p[i] ELSE 0]
            edge == [i \in 1..3 |-> IF i \in Exceeded THEN shape.box_size[i] * sign(p[i])
                                    ELSE 0]
        IN  /\ ~LastUp.panicked
            /\ LastUp.value = normalized_or_zero(VecSub(flat, edge))
            /\ \A i \in 1..3 :
                   /\ i \notin Exceeded => LastUp.value[i] = 0
                   /\ i \in Exceeded => sign(LastUp.value[i]) = sign(p[i])
                                         /\ LastUp.value[i] # 0

\* up was called for a point beyond the -x and +z extents, off the plane
\* y = 0, and the result is oblique
C13_Witness ==
    /\ Is3D /\ UpReturned
    /\ Exceeded = {1, 3}
    /\ LastCall.arg[1] < 0 /\ LastCall.arg[3] > 0 /\ LastCall.arg[2] # 0
    /\ LastUp.value[1] < 0 /\ LastUp.value[2] = 0 /\ LastUp.value[3] > 0
    /\ LastUp.value[1] # -LastUp.value[3]

(***************************************************************************)
(* Claims about the curve follower                                         *)
(***************************************************************************)
\* C14: a curve follower with no curve configured returns the zero vector
\* from up for every point and an empty list from colliders(), without
\* failing, in any state reached by set_curve and set_radius calls.
C14_NoCurve ==
    (IsCurve /\ shape.curve = None) =>
        /\ UpReturned => LastUp = [panicked |-> FALSE, value |-> ZERO]
        /\ shape_ret # None => LastRet = [panicked |-> FALSE, colliders |-> << >>]

\* colliders() and then up were called on a follower without a curve,
\* after a set_radius call
C14_Witness ==
    /\ IsCurve /\ shape.curve = None /\ shape.radius # 0
    /\ UpReturned
    /\ LastCall.arg # ZERO
    /\ LastUp.value = ZERO
    /\ shape_ret # None
    /\ LastRet.colliders = << >>

\* C15: for a curve with n >= 2 baked points, colliders() returns exactly
\* one capsule for each of the n - 1 consecutive point pairs
\* (p[i], p[i + 1]), positioned at the pair's midpoint, so that the last
\* segment of the curve is covered.
C15_OneCapsulePerPair ==
    (IsCurve /\ shape.curve # None /\ shape_ret # None
        /\ Len(Unwrap(shape.curve).points) >= 2) =>
        LET points == Unwrap(shape.curve).points
        IN  /\ ~LastRet.panicked
            /\ Len(LastRet.colliders) = Len(points) - 1
            /\ \A i \in 1..(Len(points) - 1) :
                   /\ LastRet.colliders[i].shape.kind = "capsule"
                   /\ LastRet.colliders[i].transform.origin
                          = Midpoint(points[i], points[i + 1])

\* C26: in every state of a ring shape reached by any sequence of setter
\* calls, set_vertex_count with any unsigned value included,
\* vertex_count >= 3 holds, so that colliders() never tessellates with
\* fewer than three slices.
C26_VertexCountAtLeastThree ==
    IsRing =>
        /\ shape.vertex_count >= 3
        /\ (shape_ret # None /\ ~LastRet.panicked /\ shape.internal # None) =>
               Len(LastRet.colliders) >= 3

\* C27: the ring's up returns a unit vector or the zero vector without
\* failing for every point and every parameter setting that can be reached,
\* the points on the axis of the ring above or below the height band of a
\* ring with inner_radius > 0 included; a point within the height band
\* whose distance to the axis lies between the inner and the outer radius
\* gets the vertical direction, on the side of the ring's plane it lies on.
C27_RingUpTotal ==
    (IsRing /\ UpReturned) =>
        /\ ~LastUp.panicked
        /\ GcdOf(LastUp.value) \in {0, 1}
        /\ (/\ ~RingAbove(shape, LastCall.arg)
            /\ ~RingInside(shape, LastCall.arg)
            /\ ~RingOutside(shape, LastCall.arg)) =>
               LastUp.value = <<0, sign(LastCall.arg[2]), 0>>

\* C28: in the Bolt representation every slice places its outer capsules
\* at the outer position of the slice, its inner capsules at the inner
\* position and its boxes at the middle position (the three offsets its
\* transform builder was given), each capsule of a rim once at +height/2 and
\* once at -height/2.
C28_BoltPlacement ==
    (IsRing /\ shape_ret # None /\ shape.internal # None /\ RingKind = "Bolt") =>
        LET internal == Unwrap(shape.internal)
            Placed(shp, trs) ==
                \E k \in DOMAIN LastRet.colliders : LastRet.colliders[k] = Entry(shp, trs)
        IN  /\ ~LastRet.panicked
            /\ \A i \in DOMAIN internal.transforms :
                   LET outer == Unwrap(build(internal.transforms[i], 0, 0))
                       inner == Unwrap(build(internal.transforms[i], 0, 1))
                       middle == Unwrap(build(internal.transforms[i], 1, 2))
                   IN  /\ Placed(internal.slice.outer, outer)
                       /\ Placed(internal.slice.outer, NegateY(outer))
                       /\ Placed(internal.slice.inner, inner)
                       /\ Placed(internal.slice.inner, NegateY(inner))
                       /\ Placed(internal.slice.center, middle)
                       /\ Placed(internal.center, middle)

\* C30: colliders() of the curve follower completes without failure for a
\* configured curve with any number of baked points, zero or one included,
\* in which case it returns an empty list.
C30_ShortCurve ==
    (IsCurve /\ shape.curve # None /\ shape_ret # None) =>
        /\ ~LastRet.panicked
        /\ Len(Unwrap(shape.curve).points) < 2 => LastRet.colliders = << >>

(***************************************************************************)
(* Claims about the fields                                                 *)
(***************************************************************************)
LastField == Unwrap(field_ret)
FieldReturned(op) == field_ret # None /\ LastField.op = op
\* the points of the bridge that hold the last position over their plane
LastAbove ==
    LET over == SelectPoints(field.points, LastField.position, TRUE)
    IN  [i \in DOMAIN over |-> InsideData(over[i], LastField.position)]

\* C16: a bridge field with an empty point list returns the zero vector
\* from global_up for every point.
C16_EmptyBridge ==
    (IsBridge(field) /\ field.points = << >> /\ FieldReturned("global_up")) =>
        /\ ~LastField.panicked
        /\ LastField.value = UnitOrZero(ZERO_3D)

\* global_up was called on a rotated bridge without points, away from the
\* origin
C16_Witness ==
    /\ IsBridge(field) /\ field.points = << >>
    /\ field.transform # IDENTITY_TRANSFORM_3D
    /\ FieldReturned("global_up")
    /\ LastField.position # ZERO_3D
    /\ LastField.value.dir = ZERO_3D

\* C17: for a bridge with exactly two points, both holding the position
\* over their plane, at a position equidistant from both planes the blend
\* gives both points equal non-zero weight, so that the result makes equal
\* angles with the two source up directions, and swapping the configured
\* order of the two points does not change the result.
C17_SymmetricBlend ==
    (/\ IsBridge(field) /\ Len(field.points) = 2
     /\ FieldReturned("global_up")
     /\ Len(LastAbove) = 2
     /\ LastAbove[1].distance = LastAbove[2].distance) =>
        /\ InsideWeights(LastAbove)[1] = InsideWeights(LastAbove)[2]
        /\ InsideWeights(LastAbove)[1] # <<0, 1>>
        /\ ~LastField.panicked
        /\ LastField.value.len = <<1, 1>>
        /\ Dot(LastField.value.dir, LastAbove[1].up.dir)
               = Dot(LastField.value.dir, LastAbove[2].up.dir)
        /\ LastField.value
               = bridge_global_up([field EXCEPT !.points = <<field.points[2], field.points[1]>>],
                                  LastField.position).value

\* C18: for a Center field placed at any world position, global_up(point)
\* is parallel to (point - field origin) for every world point, and is the
\* zero vector when the point is the field's origin.
C18_CenterParallel ==
    (field.type \in {"GravityCenter2D", "GravityCenter3D"} /\ FieldReturned("global_up")) =>
        LET towards == UnitOrZero(VecSub(LastField.position, field.transform.origin))
        IN  /\ LastField.position = field.transform.origin =>
                   LastField.value = towards
            /\ LastField.value.dir \in {towards.dir, Neg(towards).dir}

\* C19 as stated: for a Conic field with height equal to radius, local_up
\* equals the local_up of an Axial field with the same axis and inverted
\* flag for every point; in particular its component along the chosen axis
\* is zero.
C19_ConicEqualsAxial ==
    (IsConic(field) /\ FieldReturned("local_up") /\ field.height = field.radius) =>
        /\ LastField.value = axial_local_up(field, LastField.position)
        /\ LastField.value.dir[AxisIndex(field.axis)] = 0

\* C19, amended: for a Conic field with radius 0 and a positive height,
\* local_up equals the local_up of an Axial field with the same axis and
\* inverted flag; with height equal to radius and positive, local_up is
\* that direction tilted half way towards the axis: off the axis, without
\* its component along the axis it points as the Axial direction does, and
\* its component along the axis is as long as the rest of it, positive
\* unless the field is inverted.
C19_ConicTilt ==
    (IsConic(field) /\ FieldReturned("local_up")) =>
        LET up == LastField.value
            axis == AxisIndex(field.axis)
            axial == axial_local_up(field, LastField.position)
        IN  /\ (field.radius = 0 /\ field.height > 0) => up = axial
            /\ (field.height = field.radius /\ field.height > 0) =>
                   /\ IsUnitOrZero(up)
                   /\ UnitOrZero([up.dir EXCEPT ![axis] = 0]) = axial
                   /\ up.dir[axis] * up.dir[axis]
                          = Dot([up.dir EXCEPT ![axis] = 0], [up.dir EXCEPT ![axis] = 0])
                   /\ sign(up.dir[axis])
                          = IF axial.dir = ZERO_3D THEN 0
                            ELSE IF field.inverted THEN -1 ELSE 1

\* local_up was called off the axis of a cone whose height and radius were
\* set to the same positive value: the result leans along the axis
C19_Witness ==
    /\ IsConic(field) /\ field.height = field.radius /\ field.height > 0
    /\ FieldReturned("local_up")
    /\ flatten_axis(field.axis, LastField.position) # ZERO_3D
    /\ LastField.value.dir[AxisIndex(field.axis)] # 0
    /\ LastField.value # axial_local_up(field, LastField.position)

\* C20: for every field variant (Flat, Center, Axial, Conic, ShapeBacked),
\* every world pose of the field and every point, global_up equals local_up
\* rotated by the field's world orientation, and both local_up and
\* global_up are of unit length or exactly zero.
C20_GlobalIsRotatedLocal ==
    (field_ret # None /\ ~IsBridge(field)) =>
        /\ IsUnitOrZero(LastField.value)
        /\ LastField.op = "global_up" =>
               LastField.value = rotated(local_up(field, LastField.position), field.transform)

\* C21: in the all-above branch of a bridge with two points or more, every
\* point i, the first one included, is weighted
\* (tan(angle[i-1]/2) + tan(angle[i]/2)) / distance[i] with the indices
\* taken cyclically: no point is left with the weight zero, none is
\* weighted from its own angle twice, and the result is the blend under
\* these weights.
C21_CyclicWeights ==
    (/\ IsBridge(field) /\ FieldReturned("global_up")
     /\ Len(LastAbove) >= 2
     /\ Len(LastAbove) = Len(field.points)) =>
        /\ InsideWeights(LastAbove) = InsideWeights_Cyclic(LastAbove)
        /\ \A i \in DOMAIN LastAbove : InsideWeights(LastAbove)[i] # <<0, 1>>
        /\ ~LastField.panicked
        /\ LastField.value
               = blend_normalized_or_zero([i \in DOMAIN LastAbove |-> LastAbove[i].up],
                                          InsideWeights_Cyclic(LastAbove))

\* the points of the bridge that hold the last position below their plane
LastUnder == SelectPoints(field.points, LastField.position, FALSE)
LastBelow == [i \in DOMAIN LastUnder |-> OutsideData(LastUnder[i], LastField.position)]
\* the product of the distances and of the denominators of the up directions
\* of the points other than i
RECURSIVE OthersProduct(_, _, _)
OthersProduct(below, i, j) ==
    IF j > Len(below) THEN 1
    ELSE (IF j = i THEN 1 ELSE Abs(below[j].distance) * Exact(below[j].up).den)
         * OthersProduct(below, i, j + 1)
\* the sum of the up directions, each divided by its distance to the plane,
\* brought to a common positive denominator
InverseDistanceSum(below) ==
    [k \in 1..3 |->
        SumOf([i \in DOMAIN below |-> Exact(below[i].up).num[k] * OthersProduct(below, i, 1)])]

\* C22: when a point of the bridge or more hold the position below their
\* plane, the result depends on these points only: with one of them it is
\* the global_up of its field at the position itself, with several it is
\* the sum of their global_up weighted by (1/distance[i]) / sum(1/distance[j])
\* brought to unit length (or zero), and the bridge without the points that
\* hold the position above their plane gives the same result.
C22_BelowOnly ==
    (IsBridge(field) /\ FieldReturned("global_up") /\ LastUnder # << >>) =>
        /\ ~LastField.panicked
        /\ Len(LastUnder) = 1 =>
               LastField.value = global_up(LastUnder[1].field, LastField.position)
        /\ Len(LastUnder) > 1 =>
               LastField.value = UnitOrZero(InverseDistanceSum(LastBelow))
        /\ LastField.value
               = bridge_global_up([field EXCEPT !.points = LastUnder],
                                  LastField.position).value

\* global_up was called on a bridge of three points, one of which holds the
\* position above its plane and two below theirs at different distances:
\* the result leans towards the up of the nearer plane
C22_Witness ==
    /\ IsBridge(field) /\ Len(field.points) = 3
    /\ FieldReturned("global_up")
    /\ Len(LastAbove) = 1 /\ Len(LastBelow) = 2
    /\ Abs(LastBelow[1].distance) < Abs(LastBelow[2].distance)
    /\ Dot(LastField.value.dir, LastBelow[1].up.dir)
           > Dot(LastField.value.dir, LastBelow[2].up.dir)
    /\ Dot(LastField.value.dir, LastBelow[2].up.dir) > 0

\* C23 as stated: when a bridge has exactly one point and that point holds
\* the position above its plane, global_up returns the global_up of the
\* point's field at the position itself, not at its projection onto the
\* plane.
C23_SinglePointAtPosition ==
    (/\ IsBridge(field) /\ Len(field.points) = 1
     /\ FieldReturned("global_up") /\ Len(LastAbove) = 1) =>
        /\ ~LastField.panicked
        /\ LastField.value = global_up(field.points[1].field, LastField.position)

\* C23, amended: when a bridge has exactly one point and that point holds
\* the position above its plane, global_up returns the global_up of the
\* point's field at the projection of the position onto the plane; it is
\* at the position itself when the one point holds the position below its
\* plane.
C23_SinglePointAtProjection ==
    (/\ IsBridge(field) /\ Len(field.points) = 1
     /\ FieldReturned("global_up")) =>
        LET point == field.points[1]
            plane == get_global_plane(point)
        IN  /\ ~LastField.panicked
            /\ LastField.value
                   = global_up(point.field,
                               IF is_point_over(plane, LastField.position)
                               THEN project(plane, LastField.position)
                               ELSE LastField.position)

\* global_up was called on a bridge of one point over a Center field, at a
\* position above the plane and off the line through the origin along the
\* normal: the up directions at the position and at its projection differ
C23_Witness ==
    /\ IsBridge(field) /\ Len(field.points) = 1
    /\ field.points[1].field.type = "GravityCenter3D"
    /\ FieldReturned("global_up") /\ Len(LastAbove) = 1
    /\ LastField.value # global_up(field.points[1].field, LastField.position)
    /\ LastField.value
           = global_up(field.points[1].field,
                       project(get_global_plane(field.points[1]), LastField.position))

\* the bridge without the points whose field was freed
RECURSIVE LivePoints(_, _, _)
LivePoints(points, dead, i) ==
    IF i > Len(points) THEN << >>
    ELSE (IF i \in dead THEN << >> ELSE <<points[i]>>) \o LivePoints(points, dead, i + 1)

\* C24: if a field a point of the bridge refers to is destroyed while the
\* bridge holds its reference, a later global_up on the bridge does not
\* fail: the vanished field gives no contribution and the points that are
\* left are blended as usual.
C24_ToleratesFreedField ==
    (IsBridge(field) /\ freed # {} /\ FieldReturned("global_up")) =>
        /\ ~LastField.panicked
        /\ LastField.value
               = bridge_global_up([field EXCEPT !.points = LivePoints(field.points, freed, 1)],
                                  LastField.position).value

\* C25: the point list is a parameter of the bridge that can be set:
\* starting from a new bridge, the operations it exposes lead to a bridge
\* that holds a point list that is not empty, on which global_up returns a
\* direction that is not zero.
C25_PointsSettable ==
    <>(/\ IsBridge(field) /\ field.points # << >>
       /\ FieldReturned("global_up") /\ LastField.value.dir # ZERO_3D)

FieldInit ==
    /\ field = Flat3DInit
    /\ field_ret = None
    /\ freed = {}

ShapeInit ==
    /\ shape_ret = None
    /\ shape_call = None
    /\ shape_up = None

\* a query object, beside a shape resource that is left alone
InitQuery == QueryInit /\ shape = RingInit /\ ShapeInit /\ FieldInit

\* a shape resource of one of the shape types, beside a query object that
\* is left alone
InitShape ==
    /\ QueryInit
    /\ shape \in {Cuboid2DInit, Cuboid3DInit, RingInit, CurveInit}
    /\ ShapeInit
    /\ FieldInit

\* a new gravity field of one of the field types, beside a query object and
\* a shape that are left alone
InitField ==
    /\ QueryInit
    /\ shape = RingInit /\ ShapeInit
    /\ field \in {Flat2DInit, Flat3DInit, Center2DInit, Center3DInit, Axial3DInit,
                  Conic3DInit, Shaped2DInit, Shaped3DInit, Bridge3DInit}
    /\ field_ret = None
    /\ freed = {}

\* a bridge over one of the point lists drawn, to which global_up and
\* local_up are applied
InitBridge ==
    /\ QueryInit
    /\ shape = RingInit /\ ShapeInit
    /\ field \in BridgeInputs
    /\ field_ret = None
    /\ freed = {}

\* a new GravityBridge3D node
InitNewBridge ==
    /\ QueryInit
    /\ shape = RingInit /\ ShapeInit
    /\ field = Bridge3DInit
    /\ field_ret = None
    /\ freed = {}

\* a bridge over one of the point lists drawn, in a scene that frees the
\* fields the points refer to
InitLifetime == InitBridge

ShapeNext == CuboidNext \/ RingNext \/ CurveNext

SpecQuery == InitQuery /\ [][QueryNext]_vars

SpecShape == InitShape /\ [][ShapeNext]_vars

SpecField == InitField /\ [][FieldNext]_vars

SpecBridge == InitBridge /\ [][BridgeNext]_vars

\* a new bridge whose owner keeps calling its operations
SpecNewBridge ==
    InitNewBridge /\ [][BridgeNodeNext]_vars /\ WF_vars(BridgeNodeNext)

SpecLifetime == InitLifetime /\ [][LifetimeNext]_vars

====
